---- MODULE Spec2Model ----
(***************************************************************************)
(* A model of the decoder pipeline of src/ffplayer.c: the PacketQueue      *)
(* (serial epochs), the FrameQueue (keep-last ring), the clocks, the       *)
(* decoder driver, the reader loop and the renderers.                      *)
(*                                                                         *)
(* Conventions.                                                            *)
(*  - The data structures are records; every C function that only touches  *)
(*    one structure is an operator from the old record to the new one,     *)
(*    named as in the source.                                              *)
(*  - Each specification (SpecPQ, SpecFQ, ...) drives one part of the      *)
(*    program; the variables of the other parts stay at their initial      *)
(*    values in it.                                                        *)
(*  - av_malloc is taken to succeed.                                       *)
(*  - A double is a record of a NaN flag and an integer in thousandths;    *)
(*    time is in whole seconds, so clock arithmetic is exact.              *)
(*  - SpecClock and SpecPause run the three clocks, SpecSpeed one clock    *)
(*    under set_clock_speed, SpecAbort the threads while the player is     *)
(*    closed.                                                              *)
(***************************************************************************)
EXTENDS Integers, Sequences, FiniteSets, TLC

VARIABLES
    \* ---- a PacketQueue driven through its API (SpecPQ)
    q,            \* the PacketQueue
    pq_entered,   \* history: flush sentinels that entered q.pkts
    pq_prev,      \* history: q.serial before the last operation
    pq_op,        \* history: the last operation and its return value
    pq_got,       \* history: what the last packet_queue_get delivered
    pq_maxgot,    \* history: highest stamp delivered before the last get
    \* ---- a FrameQueue between one producer and one consumer (SpecFQ)
    f,            \* the FrameQueue (f->pktq is q)
    ppc,          \* where the producer (a decoder thread) stands
    cpc,          \* where the consumer (a renderer) stands
    apc,          \* where the thread that aborts the queue stands
    fq_waiters,   \* threads blocked in SDL_CondWait(f->cond)
    fq_pushed,    \* history: frames pushed
    fq_cycles,    \* history: peek/next cycles the consumer completed
    \* ---- reader, decoder thread and renderer of one stream (SpecPipe)
    strm,         \* "video" (videoq, pictq) or "audio" (audioq, sampq)
    dec,          \* the Decoder (d in the source)
    dpc,          \* where the decoder thread stands
    force_refresh,\* is->force_refresh
    vr_disp,      \* history: the last frame handed to the display or the
                  \* audio device
    \* ---- the clocks of a VideoState (SpecClock)
    now,          \* av_gettime_relative(), in seconds
    is,           \* the VideoState: the clocks and what drives them
    clk_h,        \* history: stamps of the master clock, the last pause
    \* ---- one Clock under set_clock_speed (SpecSpeed)
    clk,          \* the Clock
    clk_qs,       \* *clk.queue_serial
    clk_step,     \* history: get_clock() before and after set_clock_speed
    \* ---- the threads of a player that is closed (SpecAbort)
    abort_request,\* is->abort_request
    th_q,         \* the PacketQueue of each stream
    th_f,         \* the FrameQueue of each stream
    th_qwait,     \* per stream, threads blocked in SDL_CondWait(q->cond)
    th_fwait,     \* per stream, threads blocked in SDL_CondWait(f->cond)
    th_read,      \* where the reader thread stands
    th_dec,       \* where the decoder thread of each stream stands
    th_close,     \* where the thread that runs stream_close stands
    th_at,        \* history: how the threads were blocked when abort_request
                  \* was raised, once all of them were
    \* ---- the reader loop and what it queues (SpecRead, with th_q, th_read)
    rd,           \* is->seek_req, queue_attachments_req, eof, whether the
                  \* video stream is an attached picture, whether a stream
                  \* was switched since the last flush, the seeks and
                  \* switches so far
    \* ---- the seek keys of the event loop (SpecSeek)
    sk            \* what do_seek reads (the position, the container's
                  \* start_time and bit_rate, seek_by_bytes), is->seek_req,
                  \* seek_pos, seek_rel, seek_flags, and the history: incr
                  \* and the master clock of the request taken, the keys
                  \* pressed so far

varsPQh == <<pq_entered, pq_prev, pq_op, pq_got, pq_maxgot>>
varsPQ == <<q, varsPQh>>
varsFQ == <<f, ppc, cpc, apc, fq_waiters, fq_pushed, fq_cycles>>

varsPipe == <<strm, dec, dpc, force_refresh, vr_disp>>

varsClock == <<is, clk_h>>
varsSpeed == <<clk, clk_qs, clk_step>>
varsAbort == <<abort_request, th_q, th_f, th_qwait, th_fwait, th_read, th_dec,
               th_close, th_at>>

varsRead == <<rd>>
varsSeek == <<sk>>

vars == <<varsPQ, varsFQ, varsPipe, now, varsClock, varsSpeed, varsAbort,
          varsRead, varsSeek>>

\* what the actions of each part leave alone
othersPQ == <<varsFQ, varsPipe, now, varsClock, varsSpeed, varsAbort, varsRead,
      varsSeek>>
othersFQ == <<varsPipe, now, varsClock, varsSpeed, varsAbort, varsRead,
      varsSeek>>
othersPipe == <<now, varsClock, varsSpeed, varsAbort, varsRead,
      varsSeek>>

(***************************************************************************)
(* Bounds of the model                                                     *)
(***************************************************************************)
MaxQueue == 3        \* packets held by a PacketQueue in the model
MaxSerial == 3       \* flush sentinels a PacketQueue sees in the model
MaxFrames == 5       \* frames a producer pushes into a FrameQueue in the model
MaxTime == 2         \* seconds the single-clock specification runs for
MaxEvents == 2       \* seconds, flush sentinels and speed steps of SpecClock
MaxThFrames == 2     \* slots of each FrameQueue in SpecAbort
MaxQueueBytes == 6   \* MAX_QUEUE_SIZE of the model's reader loop
MaxThPackets == 1    \* packets per queue at which the reader has enough,
                     \* and packets in all queues it does not read beyond

(***************************************************************************)
(* Packets.  The flush sentinel is the process-wide flush_pkt (compared by *)
(* address in the source: a tag here); a null packet has no payload.       *)
(***************************************************************************)
SizeofMyAVPacketList == 2     \* sizeof(*pkt1), the per-entry overhead
PktSizes == {1, 2}            \* payload sizes of demuxed packets
PktDurations == {0, 1}        \* durations of demuxed packets

flush_pkt == [kind |-> "flush", size |-> 0, duration |-> 0]
NullPkt(d) == [kind |-> "null", size |-> 0, duration |-> d]
DataPkt(s, d) == [kind |-> "data", size |-> s, duration |-> d]

(***************************************************************************)
(* PacketQueue                                                             *)
(***************************************************************************)
\* packet_queue_init: memset 0, then abort_request = 1; mutex is the thread
\* that holds q->mutex
packet_queue_init ==
    [pkts |-> <<>>, nb_packets |-> 0, size |-> 0, duration |-> 0,
     abort_request |-> 1, serial |-> 0, mutex |-> "free"]

\* mutant: the serial is raised before the abort test
packet_queue_put_private_SerialFirst(pq, pkt) ==
    LET s1 == IF pkt.kind = "flush" THEN pq.serial + 1 ELSE pq.serial IN
    IF pq.abort_request = 1
    THEN [ret |-> -1, q |-> [pq EXCEPT !.serial = s1]]
    ELSE [ret |-> 0,
          q |-> [pq EXCEPT !.serial = s1,
                           !.pkts = Append(@, [pkt |-> pkt, serial |-> s1]),
                           !.nb_packets = @ + 1,
                           !.size = @ + pkt.size + SizeofMyAVPacketList,
                           !.duration = @ + pkt.duration]]

\* mutant: the queue's abort_request is not tested
packet_queue_put_private_NoAbortTest(pq, pkt) ==
    LET s1 == IF pkt.kind = "flush" THEN pq.serial + 1 ELSE pq.serial IN
    [ret |-> 0,
     q |-> [pq EXCEPT !.serial = s1,
                      !.pkts = Append(@, [pkt |-> pkt, serial |-> s1]),
                      !.nb_packets = @ + 1,
                      !.size = @ + pkt.size + SizeofMyAVPacketList,
                      !.duration = @ + pkt.duration]]

\* mutant: the entry is stamped before the flush sentinel raises the serial
packet_queue_put_private_StampFirst(pq, pkt) ==
    IF pq.abort_request = 1
    THEN [ret |-> -1, q |-> pq]
    ELSE LET s1 == IF pkt.kind = "flush" THEN pq.serial + 1 ELSE pq.serial IN
         [ret |-> 0,
          q |-> [pq EXCEPT !.serial = s1,
                           !.pkts = Append(@, [pkt |-> pkt, serial |-> pq.serial]),
                           !.nb_packets = @ + 1,
                           !.size = @ + pkt.size + SizeofMyAVPacketList,
                           !.duration = @ + pkt.duration]]

\* packet_queue_put_private: fails on an aborted queue; the flush sentinel
\* raises the serial before it is stamped
packet_queue_put_private(pq, pkt) ==
    IF pq.abort_request = 1
    THEN [ret |-> -1, q |-> pq]
    ELSE LET s1 == IF pkt.kind = "flush" THEN pq.serial + 1 ELSE pq.serial IN
         [ret |-> 0,
          q |-> [pq EXCEPT !.serial = s1,
                           !.pkts = Append(@, [pkt |-> pkt, serial |-> s1]),
                           !.nb_packets = @ + 1,
                           !.size = @ + pkt.size + SizeofMyAVPacketList,
                           !.duration = @ + pkt.duration]]

\* packet_queue_put: put_private under the mutex
packet_queue_put(pq, pkt) == packet_queue_put_private(pq, pkt)

\* mutant: the flush leaves the duration as it was
packet_queue_flush_KeepDuration(pq) ==
    [pq EXCEPT !.pkts = <<>>, !.nb_packets = 0, !.size = 0]

\* packet_queue_flush: release every packet, reset the counters
packet_queue_flush(pq) ==
    [pq EXCEPT !.pkts = <<>>, !.nb_packets = 0, !.size = 0, !.duration = 0]

\* packet_queue_abort (the signal is modelled with the threads)
packet_queue_abort(pq) == [pq EXCEPT !.abort_request = 1]

\* mutant: abort is cleared and nothing is put
packet_queue_start_NoSentinel(pq) == [pq EXCEPT !.abort_request = 0]

\* packet_queue_start: clear abort and put the flush sentinel, one critical
\* section
packet_queue_start(pq) ==
    packet_queue_put_private([pq EXCEPT !.abort_request = 0], flush_pkt).q

\* mutant: the entry is taken from the tail of the list
packet_queue_get_Tail(pq) ==
    IF pq.abort_request = 1 THEN [ret |-> -1, q |-> pq, pkt |-> flush_pkt, serial |-> -1]
    ELSE IF pq.pkts # <<>>
    THEN LET pkt1 == pq.pkts[Len(pq.pkts)] IN
         [ret |-> 1,
          q |-> [pq EXCEPT !.pkts = SubSeq(@, 1, Len(@) - 1),
                           !.nb_packets = @ - 1,
                           !.size = @ - (pkt1.pkt.size + SizeofMyAVPacketList),
                           !.duration = @ - pkt1.pkt.duration],
          pkt |-> pkt1.pkt, serial |-> pkt1.serial]
    ELSE [ret |-> 0, q |-> pq, pkt |-> flush_pkt, serial |-> -1]

\* mutant: abort_request is tested only when nothing is queued
packet_queue_get_PacketFirst(pq) ==
    IF pq.pkts # <<>>
    THEN LET pkt1 == Head(pq.pkts) IN
         [ret |-> 1,
          q |-> [pq EXCEPT !.pkts = Tail(@),
                           !.nb_packets = @ - 1,
                           !.size = @ - (pkt1.pkt.size + SizeofMyAVPacketList),
                           !.duration = @ - pkt1.pkt.duration],
          pkt |-> pkt1.pkt, serial |-> pkt1.serial]
    ELSE IF pq.abort_request = 1 THEN [ret |-> -1, q |-> pq, pkt |-> flush_pkt, serial |-> -1]
    ELSE [ret |-> 0, q |-> pq, pkt |-> flush_pkt, serial |-> -1]

\* mutant: the loop does not test abort_request
packet_queue_get_NoAbortTest(pq) ==
    IF pq.pkts # <<>>
    THEN LET pkt1 == Head(pq.pkts) IN
         [ret |-> 1,
          q |-> [pq EXCEPT !.pkts = Tail(@),
                           !.nb_packets = @ - 1,
                           !.size = @ - (pkt1.pkt.size + SizeofMyAVPacketList),
                           !.duration = @ - pkt1.pkt.duration],
          pkt |-> pkt1.pkt, serial |-> pkt1.serial]
    ELSE [ret |-> 0, q |-> pq, pkt |-> flush_pkt, serial |-> -1]

\* packet_queue_get, one pass of its loop: -1 aborted, 1 a packet with its
\* stamp, 0 nothing queued (the non-blocking return; a blocking caller waits)
packet_queue_get(pq) ==
    IF pq.abort_request = 1 THEN [ret |-> -1, q |-> pq, pkt |-> flush_pkt, serial |-> -1]
    ELSE IF pq.pkts # <<>>
    THEN LET pkt1 == Head(pq.pkts) IN
         [ret |-> 1,
          q |-> [pq EXCEPT !.pkts = Tail(@),
                           !.nb_packets = @ - 1,
                           !.size = @ - (pkt1.pkt.size + SizeofMyAVPacketList),
                           !.duration = @ - pkt1.pkt.duration],
          pkt |-> pkt1.pkt, serial |-> pkt1.serial]
    ELSE [ret |-> 0, q |-> pq, pkt |-> flush_pkt, serial |-> -1]

Max(a, b) == IF a >= b THEN a ELSE b

(***************************************************************************)
(* FrameQueue.  A slot keeps the frame's identity (0: no frame data), the  *)
(* serial it was decoded under and whether it has been uploaded.           *)
(***************************************************************************)
VIDEO_PICTURE_QUEUE_SIZE == 3
SUBPICTURE_QUEUE_SIZE == 16
SAMPLE_QUEUE_SIZE == 9
FRAME_QUEUE_SIZE == Max(SAMPLE_QUEUE_SIZE, Max(VIDEO_PICTURE_QUEUE_SIZE, SUBPICTURE_QUEUE_SIZE))

Min(a, b) == IF a <= b THEN a ELSE b

NoFrame == [id |-> 0, serial |-> 0, uploaded |-> 0]
Frame(id, serial) == [id |-> id, serial |-> serial, uploaded |-> 0]

\* frame_queue_init: memset 0, max_size clipped, keep_last normalised; mutex
\* is the thread that holds f->mutex
frame_queue_init(max_size, keep_last) ==
    [queue |-> [i \in 0 .. (Min(max_size, FRAME_QUEUE_SIZE) - 1) |-> NoFrame],
     rindex |-> 0, windex |-> 0, size |-> 0,
     max_size |-> Min(max_size, FRAME_QUEUE_SIZE),
     rindex_shown |-> 0,
     keep_last |-> IF keep_last # 0 THEN 1 ELSE 0,
     mutex |-> "free"]

\* frame_queue_unref_item: the frame data goes, the other fields stay
frame_queue_unref_item(vp) == [vp EXCEPT !.id = 0]

frame_queue_peek(fq) == fq.queue[(fq.rindex + fq.rindex_shown) % fq.max_size]
frame_queue_peek_next(fq) == fq.queue[(fq.rindex + fq.rindex_shown + 1) % fq.max_size]
frame_queue_peek_last(fq) == fq.queue[fq.rindex]
frame_queue_nb_remaining(fq) == fq.size - fq.rindex_shown

\* mutant: the writer waits only when the count is above max_size
frame_queue_peek_writable_wait_Above(fq, pq) ==
    fq.size > fq.max_size /\ pq.abort_request = 0

\* the while condition of frame_queue_peek_writable
frame_queue_peek_writable_wait(fq, pq) ==
    fq.size >= fq.max_size /\ pq.abort_request = 0

\* mutant: the reader waits only when the count is below rindex_shown
frame_queue_peek_readable_wait_Below(fq, pq) ==
    fq.size - fq.rindex_shown < 0 /\ pq.abort_request = 0

\* the while condition of frame_queue_peek_readable
frame_queue_peek_readable_wait(fq, pq) ==
    fq.size - fq.rindex_shown <= 0 /\ pq.abort_request = 0

\* mutant: the count is raised with windex, before the mutex is taken
frame_queue_push_windex_Size(fq) ==
    [fq EXCEPT !.windex = IF @ + 1 = fq.max_size THEN 0 ELSE @ + 1,
               !.size = @ + 1]

\* mutant: windex goes back to the first slot
frame_queue_push_windex_Reset(fq) == [fq EXCEPT !.windex = 0]

\* mutant: windex stays where it is
frame_queue_push_windex_Stuck(fq) == [fq EXCEPT !.windex = @]

\* frame_queue_push, the part before the mutex: ++windex, wrapped
frame_queue_push_windex(fq) ==
    [fq EXCEPT !.windex = IF @ + 1 = fq.max_size THEN 0 ELSE @ + 1]

\* frame_queue_push, the part under the mutex
frame_queue_push_size(fq) == [fq EXCEPT !.size = @ + 1]

frame_queue_push(fq) == frame_queue_push_size(frame_queue_push_windex(fq))

\* mutant: releasing a slot clears rindex_shown
frame_queue_next_rindex_ShownReset(fq) ==
    IF fq.keep_last = 1 /\ fq.rindex_shown = 0
    THEN [done |-> TRUE, f |-> [fq EXCEPT !.rindex_shown = 1]]
    ELSE [done |-> FALSE,
          f |-> [fq EXCEPT !.queue[fq.rindex] = frame_queue_unref_item(@),
                           !.rindex = IF @ + 1 = fq.max_size THEN 0 ELSE @ + 1,
                           !.rindex_shown = 0]]

\* mutant: the keep-last branch is absent
frame_queue_next_rindex_NoKeep(fq) ==
    [done |-> FALSE,
     f |-> [fq EXCEPT !.queue[fq.rindex] = frame_queue_unref_item(@),
                      !.rindex = IF @ + 1 = fq.max_size THEN 0 ELSE @ + 1]]

\* frame_queue_next, the part before the mutex: the first call on a
\* keep_last queue only marks the frame shown and returns (done); otherwise
\* the slot at rindex is released and rindex advances
frame_queue_next_rindex(fq) ==
    IF fq.keep_last = 1 /\ fq.rindex_shown = 0
    THEN [done |-> TRUE, f |-> [fq EXCEPT !.rindex_shown = 1]]
    ELSE [done |-> FALSE,
          f |-> [fq EXCEPT !.queue[fq.rindex] = frame_queue_unref_item(@),
                           !.rindex = IF @ + 1 = fq.max_size THEN 0 ELSE @ + 1]]

\* frame_queue_next, the part under the mutex
frame_queue_next_size(fq) == [fq EXCEPT !.size = @ - 1]

frame_queue_next(fq) ==
    LET r == frame_queue_next_rindex(fq) IN
    IF r.done THEN r.f ELSE frame_queue_next_size(r.f)

\* mutant: the signal releases nobody
SDL_CondSignal_Nobody(waiters) == {waiters}

\* SDL_CondSignal: one of the waiting threads, if any, is released
SDL_CondSignal(waiters) ==
    IF waiters = {} THEN {waiters} ELSE {waiters \ {t} : t \in waiters}

(***************************************************************************)
(* Decoder, reader and renderers.  The codec is a counter of the frames it *)
(* can still give back: avcodec_send_packet adds one, a successful         *)
(* avcodec_receive_frame takes one, avcodec_flush_buffers empties it.      *)
(***************************************************************************)
\* decoder_init: memset 0, pkt_serial = -1
decoder_init == [pkt_serial |-> -1, finished |-> 0, packet_pending |-> 0, codec |-> 0]

\* decoder_decode_frame, step 1: with the decoder on the queue's serial,
\* abort ends it (-1), a decoded frame is returned (1), EAGAIN leads to the
\* packet fetch (0); off the queue's serial the codec is not asked
decoder_receive(dc, pq) ==
    IF pq.serial = dc.pkt_serial
    THEN IF pq.abort_request = 1 THEN [ret |-> -1, dec |-> dc]
         ELSE IF dc.codec > 0 THEN [ret |-> 1, dec |-> [dc EXCEPT !.codec = @ - 1]]
         ELSE [ret |-> 0, dec |-> dc]
    ELSE [ret |-> 0, dec |-> dc]

\* decoder_decode_frame, steps 2 and 3 for the packet a packet_queue_get
\* delivered: a packet off the queue's serial is skipped (again), the flush
\* sentinel resets the codec, any other packet is sent to it
decoder_feed(dc, pq, pkt, serial) ==
    LET d1 == [dc EXCEPT !.pkt_serial = serial] IN
    IF pq.serial # serial THEN [again |-> TRUE, dec |-> d1]
    ELSE IF pkt.kind = "flush"
    THEN [again |-> FALSE, dec |-> [d1 EXCEPT !.codec = 0, !.finished = 0]]
    ELSE [again |-> FALSE, dec |-> [d1 EXCEPT !.codec = @ + 1]]

\* mutant: the frame is stamped one above the serial handed in
queue_picture_Ahead(fq, id, serial) ==
    frame_queue_push([fq EXCEPT !.queue[fq.windex] = Frame(id, serial + 1)])

\* queue_picture / audio_thread: the slot at windex is filled, stamped with
\* the decoder's pkt_serial and pushed
queue_picture(fq, id, serial) ==
    frame_queue_push([fq EXCEPT !.queue[fq.windex] = Frame(id, serial)])

\* read_thread_loop_handle_seek, for one stream: flush, then the sentinel
handle_seek(pq) == packet_queue_put(packet_queue_flush(pq), flush_pkt).q

\* video_image_display: peek_last is uploaded if it was not, and rendered
video_image_display(fq) == [fq EXCEPT !.queue[fq.rindex].uploaded = 1]

\* video_refresh from retry: to the display label.  late: how many late
\* frames the frame-drop test lets go; due: whether the frame then at the
\* head is due.  shown: line 1947 was reached (force_refresh = 1).
RECURSIVE video_refresh_retry(_, _, _, _)
video_refresh_retry(fq, serial, late, due) ==
    IF frame_queue_nb_remaining(fq) = 0 THEN [f |-> fq, shown |-> FALSE]
    ELSE IF frame_queue_peek(fq).serial # serial
    THEN video_refresh_retry(frame_queue_next(fq), serial, late, due)
    ELSE IF late > 0 /\ frame_queue_nb_remaining(fq) > 1
    THEN video_refresh_retry(frame_queue_next(fq), serial, late - 1, due)
    ELSE IF ~due THEN [f |-> fq, shown |-> FALSE]
    ELSE [f |-> frame_queue_next(fq), shown |-> TRUE]

\* the serials of the frames not yet read, in queue order
Unread(fq) ==
    [i \in 1 .. frame_queue_nb_remaining(fq) |->
        fq.queue[(fq.rindex + fq.rindex_shown + i - 1) % fq.max_size].serial]

(***************************************************************************)
(* Clocks.  A double is a record: NaN, or a value in thousandths (of a     *)
(* second for a pts or a clock reading; a speed of 1.0 is One).  Times are *)
(* whole seconds, so that                                                  *)
(*   pts_drift + time - (time - last_updated) * (1.0 - speed)              *)
(* is exact in integers.  Rounding of doubles is not modelled.             *)
(***************************************************************************)
One == 1000
NAN == [nan |-> TRUE, v |-> 0]
Dbl(x) == [nan |-> FALSE, v |-> x]
isnan(x) == x.nan
fabs(x) == IF x < 0 THEN -x ELSE x

AV_SYNC_AUDIO_MASTER == 0
AV_SYNC_VIDEO_MASTER == 1
AV_SYNC_EXTERNAL_CLOCK == 2
AV_NOSYNC_THRESHOLD == 10
AVERROR_ENOSYS == -38
AVERROR_EOF == -541478725

\* get_clock; queue_serial is *c->queue_serial, time is av_gettime_relative()
get_clock(c, queue_serial, time) ==
    IF queue_serial # c.serial THEN NAN
    ELSE IF c.paused = 1 THEN c.pts
    ELSE IF isnan(c.pts_drift) THEN NAN
    ELSE Dbl(c.pts_drift.v + One * time
             - (time - c.last_updated) * (One - c.speed))

set_clock_at(c, pts, serial, time) ==
    [c EXCEPT !.pts = pts,
              !.last_updated = time,
              !.pts_drift = IF isnan(pts) THEN NAN ELSE Dbl(pts.v - One * time),
              !.serial = serial]

\* set_clock: set_clock_at with the current time
set_clock(c, pts, serial, time) == set_clock_at(c, pts, serial, time)

\* mutant: the speed is switched before the clock is read and restamped
set_clock_speed_SpeedFirst(c, queue_serial, speed, time) ==
    LET c1 == [c EXCEPT !.speed = speed] IN
    set_clock(c1, get_clock(c1, queue_serial, time), c1.serial, time)

\* set_clock_speed: read at the old speed, restamp, switch speed
set_clock_speed(c, queue_serial, speed, time) ==
    [set_clock(c, get_clock(c, queue_serial, time), c.serial, time)
        EXCEPT !.speed = speed]

\* init_clock; queue names what c->queue_serial points to
init_clock(queue, time) ==
    set_clock([pts |-> NAN, pts_drift |-> NAN, last_updated |-> 0,
               speed |-> One, serial |-> 0, paused |-> 0, queue |-> queue],
              NAN, -1, time)

\* *c->queue_serial for a clock of the VideoState vs
QueueSerial(vs, c) ==
    IF c.queue = "videoq" THEN vs.videoq_serial
    ELSE IF c.queue = "audioq" THEN vs.audioq_serial
    ELSE c.serial

\* mutant: a clock whose own reading is NaN is left alone
sync_clock_to_slave_NoNanTest(c, cqs, slave, sqs, time) ==
    LET clock == get_clock(c, cqs, time)
        slave_clock == get_clock(slave, sqs, time)
    IN  IF /\ ~isnan(slave_clock)
           /\ ~isnan(clock)
           /\ fabs(clock.v - slave_clock.v) > AV_NOSYNC_THRESHOLD * One
        THEN set_clock(c, slave_clock, slave.serial, time)
        ELSE c

\* sync_clock_to_slave; cqs and sqs are the two clocks' queue serials
sync_clock_to_slave(c, cqs, slave, sqs, time) ==
    LET clock == get_clock(c, cqs, time)
        slave_clock == get_clock(slave, sqs, time)
    IN  IF /\ ~isnan(slave_clock)
           /\ \/ isnan(clock)
              \/ fabs(clock.v - slave_clock.v) > AV_NOSYNC_THRESHOLD * One
        THEN set_clock(c, slave_clock, slave.serial, time)
        ELSE c

\* mutant: without a video stream the video master falls back to the
\* external clock
get_master_sync_type_ExtFallback(vs) ==
    IF vs.av_sync_type = AV_SYNC_VIDEO_MASTER
    THEN IF vs.video_st = 1 THEN AV_SYNC_VIDEO_MASTER ELSE AV_SYNC_EXTERNAL_CLOCK
    ELSE IF vs.av_sync_type = AV_SYNC_AUDIO_MASTER
    THEN IF vs.audio_st = 1 THEN AV_SYNC_AUDIO_MASTER ELSE AV_SYNC_EXTERNAL_CLOCK
    ELSE AV_SYNC_EXTERNAL_CLOCK

get_master_sync_type(vs) ==
    IF vs.av_sync_type = AV_SYNC_VIDEO_MASTER
    THEN IF vs.video_st = 1 THEN AV_SYNC_VIDEO_MASTER ELSE AV_SYNC_AUDIO_MASTER
    ELSE IF vs.av_sync_type = AV_SYNC_AUDIO_MASTER
    THEN IF vs.audio_st = 1 THEN AV_SYNC_AUDIO_MASTER ELSE AV_SYNC_EXTERNAL_CLOCK
    ELSE AV_SYNC_EXTERNAL_CLOCK

\* the clock get_master_clock reads
MasterClk(vs) ==
    IF get_master_sync_type(vs) = AV_SYNC_VIDEO_MASTER THEN vs.vidclk
    ELSE IF get_master_sync_type(vs) = AV_SYNC_AUDIO_MASTER THEN vs.audclk
    ELSE vs.extclk

get_master_clock(vs, time) ==
    get_clock(MasterClk(vs), QueueSerial(vs, MasterClk(vs)), time)

\* mutant: the external clock is not restamped
stream_toggle_pause_NoExt(vs, time) ==
    LET v0 == [vs.vidclk EXCEPT !.paused =
                  IF vs.read_pause_return # AVERROR_ENOSYS THEN 0 ELSE @]
        vs1 == IF vs.paused = 1
               THEN [vs EXCEPT !.vidclk =
                        set_clock(v0, get_clock(v0, vs.videoq_serial, time),
                                  v0.serial, time)]
               ELSE vs
        p == 1 - vs.paused
    IN  [vs1 EXCEPT !.paused = p, !.audclk.paused = p,
                    !.vidclk.paused = p, !.extclk.paused = p]

\* stream_toggle_pause (frame_timer is not part of the model)
stream_toggle_pause(vs, time) ==
    LET v0 == [vs.vidclk EXCEPT !.paused =
                  IF vs.read_pause_return # AVERROR_ENOSYS THEN 0 ELSE @]
        vs1 == IF vs.paused = 1
               THEN [vs EXCEPT !.vidclk =
                        set_clock(v0, get_clock(v0, vs.videoq_serial, time),
                                  v0.serial, time)]
               ELSE vs
        e == set_clock(vs1.extclk,
                       get_clock(vs1.extclk, vs1.extclk.serial, time),
                       vs1.extclk.serial, time)
        p == 1 - vs.paused
    IN  [vs1 EXCEPT !.extclk = [e EXCEPT !.paused = p],
                    !.paused = p, !.audclk.paused = p, !.vidclk.paused = p]

\* update_video_pts
update_video_pts(vs, pts, serial, time) ==
    LET v == set_clock(vs.vidclk, pts, serial, time) IN
    [vs EXCEPT !.vidclk = v,
               !.extclk = sync_clock_to_slave(vs.extclk, vs.extclk.serial,
                                              v, vs.videoq_serial, time)]

\* update_audio_pts: pts is af->pts plus the frame's length
update_audio_pts(vs, pts, serial) ==
    [vs EXCEPT !.audio_clock = pts, !.audio_clock_serial = serial]

\* mutant: the audio clock is stamped without the test for NaN
audio_callback_clock_NoNanTest(vs, latency, time) ==
    LET a == set_clock_at(vs.audclk,
                          IF isnan(vs.audio_clock) THEN NAN
                          ELSE Dbl(vs.audio_clock.v - latency),
                          vs.audio_clock_serial, time)
    IN  [vs EXCEPT !.audclk = a,
                   !.extclk = sync_clock_to_slave(vs.extclk, vs.extclk.serial,
                                                  a, vs.audioq_serial, time)]

\* sdl_audio_callback, its end: the audio clock is stamped at the callback
\* time with what the device has not played yet (latency) taken off
audio_callback_clock(vs, latency, time) ==
    IF isnan(vs.audio_clock) THEN vs
    ELSE LET a == set_clock_at(vs.audclk, Dbl(vs.audio_clock.v - latency),
                               vs.audio_clock_serial, time)
         IN  [vs EXCEPT !.audclk = a,
                        !.extclk = sync_clock_to_slave(vs.extclk, vs.extclk.serial,
                                                       a, vs.audioq_serial, time)]

EXTERNAL_CLOCK_SPEED_MIN == 900
EXTERNAL_CLOCK_SPEED_MAX == 1010
EXTERNAL_CLOCK_SPEED_STEP == 1

\* check_external_clock_speed; branch stands for what the tests on
\* nb_packets select: "low" few packets queued, "high" many, "mid" neither
\* (the speed in whole thousandths; as the doubles it is stored in, and with
\* the tests themselves, it is external_clock_speed)
check_external_clock_speed(vs, branch, time) ==
    LET e == vs.extclk IN
    IF branch = "low"
    THEN [vs EXCEPT !.extclk = set_clock_speed(e, e.serial,
              Max(EXTERNAL_CLOCK_SPEED_MIN, e.speed - EXTERNAL_CLOCK_SPEED_STEP), time)]
    ELSE IF branch = "high"
    THEN [vs EXCEPT !.extclk = set_clock_speed(e, e.serial,
              Min(EXTERNAL_CLOCK_SPEED_MAX, e.speed + EXTERNAL_CLOCK_SPEED_STEP), time)]
    ELSE IF e.speed # One
    THEN [vs EXCEPT !.extclk = set_clock_speed(e, e.serial,
              e.speed + (IF e.speed < One THEN EXTERNAL_CLOCK_SPEED_STEP
                                          ELSE -EXTERNAL_CLOCK_SPEED_STEP), time)]
    ELSE vs

\* step_to_next_frame
step_to_next_frame(vs, time) ==
    [(IF vs.paused = 1 THEN stream_toggle_pause(vs, time) ELSE vs) EXCEPT !.step = 1]

\* read_thread_loop_handle_seek on the clocks' side: the started queues get
\* the flush sentinel, the external clock is set to the target (NaN for a
\* seek by bytes), a paused player steps
clock_handle_seek(vs, target, time) ==
    LET vs1 == [vs EXCEPT !.videoq_serial = @ + vs.video_st,
                          !.audioq_serial = @ + vs.audio_st,
                          !.extclk = set_clock(@, target, 0, time)]
    IN  IF vs1.paused = 1 THEN step_to_next_frame(vs1, time) ELSE vs1

\* read_thread_loop_handle_pause
read_thread_loop_handle_pause(vs) ==
    IF vs.paused # vs.last_paused
    THEN [vs EXCEPT !.last_paused = vs.paused,
                    !.read_pause_return =
                        IF vs.paused = 1 THEN vs.fmt_pause ELSE @]
    ELSE vs

(***************************************************************************)
(* SpecPQ: one PacketQueue and any sequence of its operations              *)
(***************************************************************************)
NoGet == [ret |-> 0, serial |-> -1, qserial |-> 0, kind |-> "none"]

\* whether the operation from pq to pq2 appended a flush sentinel
FlushEntered(pq, pq2) ==
    /\ Len(pq2.pkts) = Len(pq.pkts) + 1
    /\ pq2.pkts[Len(pq2.pkts)].pkt.kind = "flush"

\* the FrameQueue part at rest
FQParked ==
    /\ f = frame_queue_init(VIDEO_PICTURE_QUEUE_SIZE, 1)
    /\ ppc = "idle"
    /\ cpc = "idle"
    /\ apc = "run"
    /\ fq_waiters = {}
    /\ fq_pushed = 0
    /\ fq_cycles = 0

NoDisp == [id |-> 0, serial |-> 0, qserial |-> 0, fresh |-> FALSE]

\* the decoder pipeline at rest
PipeParked ==
    /\ strm = "video"
    /\ dec = decoder_init
    /\ dpc = "receive"
    /\ force_refresh = 0
    /\ vr_disp = NoDisp

\* stream_open and stream_component_open for the streams present: the
\* clocks initialised, the packet queues of the streams started
VideoState(sync, video_st, audio_st, realtime, fmt_pause) ==
    [paused |-> 0, last_paused |-> 0, step |-> 0, read_pause_return |-> 0,
     av_sync_type |-> sync, video_st |-> video_st, audio_st |-> audio_st,
     realtime |-> realtime, fmt_pause |-> fmt_pause,
     audio_clock |-> Dbl(0), audio_clock_serial |-> -1,
     videoq_serial |-> IF video_st = 1 THEN packet_queue_start(packet_queue_init).serial
                                       ELSE packet_queue_init.serial,
     audioq_serial |-> IF audio_st = 1 THEN packet_queue_start(packet_queue_init).serial
                                       ELSE packet_queue_init.serial,
     vidclk |-> init_clock("videoq", 0),
     audclk |-> init_clock("audioq", 0),
     extclk |-> init_clock("self", 0)]

\* the history kept of the clocks: "stamp" follows the stamps of the master
\* clock (everset, mset), "pause" the master clock around a pause
NoHist(mode) ==
    [mode |-> mode, everset |-> FALSE, mset |-> FALSE, pre |-> NAN, post |-> NAN,
     resumed |-> FALSE, dirty |-> FALSE, length |-> 0]
NoStep == [before |-> NAN, after |-> NAN, applies |-> FALSE, elapsed |-> 0,
           old |-> One, new |-> One]

\* the VideoState's clocks at rest
IsParked ==
    /\ is = VideoState(AV_SYNC_AUDIO_MASTER, 1, 1, 0, 0)
    /\ clk_h = NoHist("stamp")

\* the single Clock at rest
SpeedParked ==
    /\ clk = init_clock("queue", 0)
    /\ clk_qs = 0
    /\ clk_step = NoStep

\* the streams a player is closed with, in the order stream_close takes them
Streams == <<"audio", "video">>
StreamSet == {Streams[i] : i \in DOMAIN Streams}

\* no key pressed: the seek fields as stream_open leaves them
NoSeek ==
    [master |-> Dbl(0), last_pos_v |-> -1, last_pos_a |-> -1, tell |-> 0,
     start_time |-> 0, bit_rate |-> 0, seek_by_bytes |-> 0,
     incr |-> 0, from |-> NAN, keys |-> 0,
     seek_req |-> 0, seek_pos |-> 0, seek_rel |-> 0, seek_flags |-> 0]

\* the reader's flags as stream_open leaves them
NoRead(attached) ==
    [seek_req |-> 0, queue_attachments_req |-> 0, eof |-> 0, ret |-> 0,
     eof_before |-> 0, attached |-> attached, switched |-> FALSE, events |-> 0]

ReadParked ==
    /\ rd = NoRead(0)
    /\ sk = NoSeek

\* the threads before stream_open has started them
AbortParked ==
    /\ ReadParked
    /\ abort_request = 0
    /\ th_q = [s \in StreamSet |-> packet_queue_init]
    /\ th_f = [s \in StreamSet |-> frame_queue_init(1, 0)]
    /\ th_qwait = [s \in StreamSet |-> {}]
    /\ th_fwait = [s \in StreamSet |-> {}]
    /\ th_read = "none"
    /\ th_dec = [s \in StreamSet |-> "none"]
    /\ th_close = [pc |-> "none", i |-> 0, log |-> <<>>]
    /\ th_at = {}

\* the clocks at rest
ClockParked ==
    /\ now = 0
    /\ IsParked
    /\ SpeedParked


\* the PacketQueue history at rest
PQhParked ==
    /\ pq_entered = 0
    /\ pq_prev = 0
    /\ pq_op = [op |-> "init", ret |-> 0]
    /\ pq_got = NoGet
    /\ pq_maxgot = -1

\* every queue and thread at rest
QueuesParked ==
    /\ q = packet_queue_init
    /\ PQhParked
    /\ FQParked
    /\ PipeParked

InitPQ ==
    /\ ClockParked
    /\ AbortParked
    /\ FQParked
    /\ PipeParked
    /\ q = packet_queue_init
    /\ pq_entered = 0
    /\ pq_prev = 0
    /\ pq_op = [op |-> "init", ret |-> 0]
    /\ pq_got = NoGet
    /\ pq_maxgot = -1

\* the bookkeeping every SpecPQ operation other than get does
PQStep(name, ret, q2) ==
    /\ q' = q2
    /\ pq_prev' = q.serial
    /\ pq_op' = [op |-> name, ret |-> ret]
    /\ pq_entered' = pq_entered + (IF FlushEntered(q, q2) THEN 1 ELSE 0)
    /\ UNCHANGED othersPQ

PQPut ==
    /\ Len(q.pkts) < MaxQueue
    /\ \E s \in PktSizes, d \in PktDurations :
          LET r == packet_queue_put(q, DataPkt(s, d)) IN PQStep("put", r.ret, r.q)
    /\ UNCHANGED <<pq_got, pq_maxgot>>

\* packet_queue_put_nullpacket: pkt1.duration is never initialised
PQPutNull ==
    /\ Len(q.pkts) < MaxQueue
    /\ \E d \in PktDurations :
          LET r == packet_queue_put(q, NullPkt(d)) IN PQStep("put_null", r.ret, r.q)
    /\ UNCHANGED <<pq_got, pq_maxgot>>

PQPutFlush ==
    /\ Len(q.pkts) < MaxQueue
    /\ q.serial < MaxSerial
    /\ LET r == packet_queue_put(q, flush_pkt) IN PQStep("put_flush", r.ret, r.q)
    /\ UNCHANGED <<pq_got, pq_maxgot>>

PQStart ==
    /\ Len(q.pkts) < MaxQueue
    /\ q.serial < MaxSerial
    /\ PQStep("start", 0, packet_queue_start(q))
    /\ UNCHANGED <<pq_got, pq_maxgot>>

PQFlush ==
    /\ PQStep("flush", 0, packet_queue_flush(q))
    /\ UNCHANGED <<pq_got, pq_maxgot>>

PQAbort ==
    /\ PQStep("abort", 0, packet_queue_abort(q))
    /\ UNCHANGED <<pq_got, pq_maxgot>>

PQGet ==
    LET r == packet_queue_get(q) IN
    /\ PQStep("get", r.ret, r.q)
    /\ pq_got' = [ret |-> r.ret, serial |-> r.serial, qserial |-> q.serial,
                  kind |-> IF r.ret = 1 THEN r.pkt.kind ELSE "none"]
    /\ pq_maxgot' = IF pq_got.ret = 1 THEN Max(pq_maxgot, pq_got.serial) ELSE pq_maxgot

NextPQ == PQPut \/ PQPutNull \/ PQPutFlush \/ PQStart \/ PQFlush \/ PQAbort \/ PQGet

SpecPQ == InitPQ /\ [][NextPQ]_vars

(***************************************************************************)
(* Claims about the PacketQueue (SpecPQ)                                   *)
(***************************************************************************)
\* C1: the serial equals its initial value (0, from packet_queue_init) plus
\* the number of flush sentinels that entered the queue; it never decreases;
\* only an accepted put of the flush sentinel or a start changes it, by
\* exactly one; a put of the flush sentinel rejected by abort leaves it.
C1_SerialCountsFlushes ==
    /\ q.serial = packet_queue_init.serial + pq_entered
    /\ q.serial >= pq_prev
    /\ (q.serial # pq_prev =>
           /\ pq_op.op \in {"put_flush", "start"}
           /\ pq_op.ret = 0
           /\ q.serial = pq_prev + 1)
    /\ (pq_op.op = "put_flush" /\ pq_op.ret < 0 => q.serial = pq_prev)

\* C1 witness: the second sentinel has entered and a later put of the
\* sentinel has just been rejected by abort
C1_Witness ==
    /\ pq_entered = 2
    /\ pq_op = [op |-> "put_flush", ret |-> -1]
    /\ q.serial = 2

\* C2 as stated: once a flush sentinel has entered, every packet get
\* delivers is stamped with at least the queue's serial at that moment
C2_Original ==
    (pq_entered >= 1 /\ pq_got.ret = 1) => pq_got.serial >= pq_got.qserial

\* C2 amended: the stamps get delivers never decrease and never exceed the
\* queue's serial, so once get has delivered a sentinel stamped S nothing
\* stamped below S is delivered afterwards
C2_DeliveredStampsNonDecreasing ==
    pq_got.ret = 1 =>
        /\ pq_got.serial >= pq_maxgot
        /\ pq_got.serial <= pq_got.qserial

\* C2 witness: a data packet delivered after the second sentinel was
\* delivered, carrying that sentinel's stamp
C2_Witness ==
    /\ pq_got.ret = 1
    /\ pq_got.kind = "data"
    /\ pq_got.serial = 2
    /\ pq_maxgot = 2

\* the bytes and the duration the entries of a list are billed
RECURSIVE SumSize(_)
SumSize(pkts) ==
    IF pkts = <<>> THEN 0
    ELSE Head(pkts).pkt.size + SizeofMyAVPacketList + SumSize(Tail(pkts))

RECURSIVE SumDuration(_)
SumDuration(pkts) ==
    IF pkts = <<>> THEN 0
    ELSE Head(pkts).pkt.duration + SumDuration(Tail(pkts))

\* C13: nb_packets is the number of entries in the list, size the sum of
\* payload size plus per-entry overhead over them, duration the sum of their
\* durations; a flush leaves all three at zero
C13_CountersMatchList ==
    /\ q.nb_packets = Len(q.pkts)
    /\ q.size = SumSize(q.pkts)
    /\ q.duration = SumDuration(q.pkts)
    /\ (pq_op.op = "flush" => q.nb_packets = 0 /\ q.size = 0 /\ q.duration = 0)

\* C13 witness: a get has just taken a packet out of a queue that was
\* flushed before and still holds two packets with a duration
C13_Witness ==
    /\ pq_op = [op |-> "get", ret |-> 1]
    /\ pq_entered = 2
    /\ q.nb_packets = 2
    /\ q.duration = 2
    /\ q.size = 2 * SizeofMyAVPacketList + 3

\* C14: every entry carries the queue's serial of the moment it was put
\* (the entry just put carries the current one, the flush sentinel the
\* serial it has raised); the stamps do not decrease from head to tail, none
\* exceeds the queue's serial, and an entry behind a flush sentinel is
\* stamped higher than every entry ahead of that sentinel
C14_StampsFollowSerial ==
    /\ \A i \in 1 .. Len(q.pkts) : q.pkts[i].serial <= q.serial
    /\ \A i, j \in 1 .. Len(q.pkts) :
          i < j => q.pkts[i].serial <= q.pkts[j].serial
    /\ \A i, j, k \in 1 .. Len(q.pkts) :
          (i < j /\ j <= k /\ q.pkts[j].pkt.kind = "flush")
              => q.pkts[i].serial < q.pkts[k].serial
    /\ (pq_op.op \in {"put", "put_null", "put_flush", "start"} /\ pq_op.ret = 0)
          => /\ q.pkts # <<>>
             /\ q.pkts[Len(q.pkts)].serial = q.serial
             /\ (pq_op.op \in {"put", "put_null"} => q.serial = pq_prev)
             /\ (pq_op.op \in {"put_flush", "start"} => q.serial = pq_prev + 1)

\* C14 witness: a data packet of the first epoch, then the second flush
\* sentinel, then a data packet just put and stamped with the second serial
C14_Witness ==
    /\ pq_op = [op |-> "put", ret |-> 0]
    /\ Len(q.pkts) = 3
    /\ q.pkts[1].pkt.kind = "data" /\ q.pkts[1].serial = 1
    /\ q.pkts[2].pkt.kind = "flush" /\ q.pkts[2].serial = 2
    /\ q.pkts[3].pkt.kind = "data" /\ q.pkts[3].serial = 2

\* C15: a put on an aborted queue, of a packet, a null packet or the flush
\* sentinel, fails and leaves the list, nb_packets, size, duration and
\* serial as they were
C15_AbortedPutRejected ==
    [][(q.abort_request = 1 /\ pq_op'.op \in {"put", "put_null", "put_flush"})
          => (pq_op'.ret = -1 /\ q' = q)]_vars

\* C15 witness: a put has just been rejected by an aborted queue that holds
\* packets of its second epoch
C15_Witness ==
    /\ pq_op = [op |-> "put", ret |-> -1]
    /\ q.abort_request = 1
    /\ q.nb_packets = 2
    /\ q.serial = 2

(***************************************************************************)
(* SpecFQ: one FrameQueue, its producer, its consumer and an abort of the  *)
(* PacketQueue behind it.  A step is one critical section of f->mutex or   *)
(* one stretch of code outside it.                                         *)
(***************************************************************************)
FQSizes == {2, VIDEO_PICTURE_QUEUE_SIZE}

InitFQ ==
    /\ ClockParked
    /\ AbortParked
    /\ PQhParked
    /\ PipeParked
    /\ q = packet_queue_start(packet_queue_init)
    /\ \E max_size \in FQSizes, keep_last \in {0, 1} :
          f = frame_queue_init(max_size, keep_last)
    /\ ppc = "idle"
    /\ cpc = "idle"
    /\ apc = "run"
    /\ fq_waiters = {}
    /\ fq_pushed = 0
    /\ fq_cycles = 0

\* frame_queue_peek_writable, the loop under the mutex: wait or fall through
P_PeekWritable ==
    /\ \/ ppc = "idle" /\ fq_pushed < MaxFrames
       \/ ppc = "wait" /\ "producer" \notin fq_waiters
    /\ IF frame_queue_peek_writable_wait(f, q)
       THEN ppc' = "wait" /\ fq_waiters' = fq_waiters \cup {"producer"}
       ELSE ppc' = "check" /\ fq_waiters' = fq_waiters
    /\ UNCHANGED <<varsPQ, othersFQ, f, cpc, apc, fq_pushed, fq_cycles>>

\* frame_queue_peek_writable, after the mutex: NULL on abort (the decoder
\* thread ends), else the slot at windex
P_Check ==
    /\ ppc = "check"
    /\ ppc' = IF q.abort_request = 1 THEN "exit" ELSE "fill"
    /\ UNCHANGED <<varsPQ, othersFQ, f, cpc, apc, fq_waiters, fq_pushed, fq_cycles>>

\* queue_picture: the slot is filled and stamped
P_Fill ==
    /\ ppc = "fill"
    /\ f' = [f EXCEPT !.queue[f.windex] = Frame(fq_pushed + 1, q.serial)]
    /\ ppc' = "push"
    /\ UNCHANGED <<varsPQ, othersFQ, cpc, apc, fq_waiters, fq_pushed, fq_cycles>>

P_PushIndex ==
    /\ ppc = "push"
    /\ f' = frame_queue_push_windex(f)
    /\ ppc' = "push_locked"
    /\ UNCHANGED <<varsPQ, othersFQ, cpc, apc, fq_waiters, fq_pushed, fq_cycles>>

P_PushSize ==
    /\ ppc = "push_locked"
    /\ f' = frame_queue_push_size(f)
    /\ \E w \in SDL_CondSignal(fq_waiters) : fq_waiters' = w
    /\ fq_pushed' = fq_pushed + 1
    /\ ppc' = "idle"
    /\ UNCHANGED <<varsPQ, othersFQ, cpc, apc, fq_cycles>>

\* frame_queue_peek_readable, the loop under the mutex (audio_decode_frame)
C_PeekReadable ==
    /\ \/ cpc = "idle"
       \/ cpc = "wait" /\ "consumer" \notin fq_waiters
    /\ IF frame_queue_peek_readable_wait(f, q)
       THEN cpc' = "wait" /\ fq_waiters' = fq_waiters \cup {"consumer"}
       ELSE cpc' = "check" /\ fq_waiters' = fq_waiters
    /\ UNCHANGED <<varsPQ, othersFQ, f, ppc, apc, fq_pushed, fq_cycles>>

\* frame_queue_peek_readable, after the mutex: NULL on abort (the cycle
\* fails), else the frame to read
C_Check ==
    /\ cpc = "check"
    /\ cpc' = IF q.abort_request = 1 THEN "idle" ELSE "next"
    /\ UNCHANGED <<varsPQ, othersFQ, f, ppc, apc, fq_waiters, fq_pushed, fq_cycles>>

\* video_refresh: frame_queue_nb_remaining() tested, no wait; the test is
\* == 0 for pictq and > 0 for subpq (subtitle_refresh_hide_or_skip)
C_NbRemaining ==
    /\ cpc = "idle"
    /\ \/ f.keep_last = 1 /\ frame_queue_nb_remaining(f) # 0
       \/ f.keep_last = 0 /\ frame_queue_nb_remaining(f) > 0
    /\ cpc' = "next"
    /\ UNCHANGED <<varsPQ, othersFQ, f, ppc, apc, fq_waiters, fq_pushed, fq_cycles>>

C_Next ==
    /\ cpc = "next"
    /\ LET r == frame_queue_next_rindex(f) IN
          /\ f' = r.f
          /\ cpc' = IF r.done THEN "idle" ELSE "next_locked"
          /\ fq_cycles' = IF r.done THEN fq_cycles + 1 ELSE fq_cycles
    /\ UNCHANGED <<varsPQ, othersFQ, ppc, apc, fq_waiters, fq_pushed>>

C_NextSize ==
    /\ cpc = "next_locked"
    /\ f' = frame_queue_next_size(f)
    /\ \E w \in SDL_CondSignal(fq_waiters) : fq_waiters' = w
    /\ fq_cycles' = fq_cycles + 1
    /\ cpc' = "idle"
    /\ UNCHANGED <<varsPQ, othersFQ, ppc, apc, fq_pushed>>

\* decoder_abort: packet_queue_abort(d->queue) ...
A_Abort ==
    /\ apc = "run"
    /\ q' = packet_queue_abort(q)
    /\ apc' = "signal"
    /\ UNCHANGED <<varsPQh, othersFQ, f, ppc, cpc, fq_waiters, fq_pushed, fq_cycles>>

\* ... then frame_queue_signal(fq)
A_Signal ==
    /\ apc = "signal"
    /\ \E w \in SDL_CondSignal(fq_waiters) : fq_waiters' = w
    /\ apc' = "done"
    /\ UNCHANGED <<varsPQ, othersFQ, f, ppc, cpc, fq_pushed, fq_cycles>>

NextFQ ==
    \/ P_PeekWritable \/ P_Check \/ P_Fill \/ P_PushIndex \/ P_PushSize
    \/ C_PeekReadable \/ C_Check \/ C_NbRemaining \/ C_Next \/ C_NextSize
    \/ A_Abort \/ A_Signal

SpecFQ == InitFQ /\ [][NextFQ]_vars

(***************************************************************************)
(* Claims about the FrameQueue (SpecFQ)                                    *)
(***************************************************************************)
\* C3: in every interleaving of the producer, the consumer and the abort,
\* the held count stays within 0 .. max_size, keep_last or not.
C3_SizeWithinBounds ==
    /\ 0 <= f.size
    /\ f.size <= f.max_size

\* C3 witness: a non-keep_last queue is full with its producer blocked in
\* peek_writable after the consumer has taken frames, and the abort is raised
C3_Witness ==
    /\ f.keep_last = 0
    /\ f.size = f.max_size
    /\ ppc = "wait"
    /\ fq_cycles >= 1
    /\ q.abort_request = 1

\* C4 as stated: the state where every one of the N received frames has
\* been read and peek_last is the Nth frame comes after N+1 cycles
C4_Original ==
    (/\ f.keep_last = 1
     /\ cpc = "idle"
     /\ fq_pushed >= 1
     /\ f.rindex_shown = 1
     /\ frame_queue_peek_last(f).id = fq_pushed)
    => fq_cycles = fq_pushed + 1

\* C4 amended: on a keep_last queue, after k >= 1 successful peek/next
\* cycles rindex_shown = 1 and peek_last is the k-th frame received; no more
\* cycles succeed than frames were received, so after N frames it is the
\* N-th cycle that leaves peek_last at the N-th frame
C4_KeepLast ==
    (f.keep_last = 1 /\ cpc # "next_locked" /\ fq_cycles >= 1) =>
        /\ f.rindex_shown = 1
        /\ frame_queue_peek_last(f).id = fq_cycles
        /\ fq_cycles <= fq_pushed

\* C4 witness: more frames than the ring has slots were received and all of
\* them were read
C4_Witness ==
    /\ f.keep_last = 1
    /\ cpc = "idle"
    /\ fq_pushed > f.max_size
    /\ fq_cycles = fq_pushed
    /\ frame_queue_peek_last(f).id = fq_pushed
    /\ frame_queue_nb_remaining(f) = 0

\* the threads of SpecFQ
FQProducer == P_PeekWritable \/ P_Check \/ P_Fill \/ P_PushIndex \/ P_PushSize
FQConsumer == C_PeekReadable \/ C_Check \/ C_NbRemaining \/ C_Next \/ C_NextSize
FQCloser == A_Signal

\* SpecFQ with threads that run when they can: the producer, the consumer,
\* and decoder_abort between its packet_queue_abort and frame_queue_signal
SpecFQFair ==
    /\ InitFQ /\ [][NextFQ]_vars
    /\ WF_vars(FQProducer)
    /\ WF_vars(FQConsumer)
    /\ WF_vars(FQCloser)

\* C19: no wakeup is lost: a producer waiting in frame_queue_peek_writable
\* leaves the wait once the consumer has made room or the queue is aborted
\* (frame_queue_signal follows the abort), and a consumer waiting in
\* frame_queue_peek_readable leaves it once a frame is there to read or the
\* queue is aborted
C19_NoLostWakeup ==
    /\ (ppc = "wait" /\ (f.size < f.max_size \/ q.abort_request = 1))
          ~> (ppc # "wait")
    /\ (cpc = "wait" /\ (f.size - f.rindex_shown > 0 \/ q.abort_request = 1))
          ~> (cpc # "wait")

\* C19 witness: the producer went to wait on a full queue, the queue was
\* aborted and frame_queue_signal has released the producer, which has yet
\* to run
C19_Witness ==
    /\ ppc = "wait"
    /\ "producer" \notin fq_waiters
    /\ f.size = f.max_size
    /\ q.abort_request = 1
    /\ apc = "done"

\* C18: on a keep_last queue the first frame_queue_next only sets
\* rindex_shown (rindex and size stay); every other next releases the slot
\* at rindex, advances rindex modulo max_size and then takes one off size;
\* rindex_shown, once 1, stays 1, and without keep_last it stays 0
C18_NextKeepsLast ==
    /\ [][(cpc = "next" /\ cpc' # "next")
             => IF f.keep_last = 1 /\ f.rindex_shown = 0
                THEN /\ f' = [f EXCEPT !.rindex_shown = 1]
                     /\ cpc' = "idle"
                ELSE /\ f' = [f EXCEPT
                                !.queue[f.rindex] = [@ EXCEPT !.id = 0],
                                !.rindex = (f.rindex + 1) % f.max_size]
                     /\ cpc' = "next_locked"]_vars
    /\ [][(cpc = "next_locked" /\ cpc' # "next_locked")
             => f' = [f EXCEPT !.size = f.size - 1]]_vars
    /\ [][f.rindex_shown = 1 => f'.rindex_shown = 1]_vars
    /\ [](f.keep_last = 0 => f.rindex_shown = 0)

\* C18 witness: on a keep_last queue of two slots the consumer has marked
\* the first frame shown and released two slots since, so that rindex has
\* wrapped to 0
C18_Witness ==
    /\ f.keep_last = 1
    /\ f.max_size = 2
    /\ f.rindex_shown = 1
    /\ fq_cycles = 3
    /\ f.rindex = 0
    /\ cpc = "idle"

(***************************************************************************)
(* SpecPipe: one stream from the reader to the renderer: the reader puts   *)
(* packets and seeks, the decoder thread decodes and queues frames, the    *)
(* renderer (video_refresh on the main thread, or audio_decode_frame on    *)
(* the audio thread) takes them, the user exposes the window.  Each action *)
(* is atomic; a blocking call is an action that waits for its guard.       *)
(***************************************************************************)
InitPipe ==
    /\ PQhParked
    /\ ClockParked
    /\ AbortParked
    /\ q = packet_queue_start(packet_queue_init)
    /\ strm \in {"video", "audio"}
    /\ f = frame_queue_init(IF strm = "video" THEN VIDEO_PICTURE_QUEUE_SIZE
                                             ELSE SAMPLE_QUEUE_SIZE, 1)
    /\ dec = decoder_init
    /\ dpc = "receive"
    /\ force_refresh = 0
    /\ vr_disp = NoDisp
    /\ ppc = "idle"
    /\ cpc = "idle"
    /\ apc = "run"
    /\ fq_waiters = {}
    /\ fq_pushed = 0
    /\ fq_cycles = 0

fqRest == <<ppc, cpc, apc, fq_waiters, fq_cycles>>

\* read_thread_loop: a demuxed packet of the stream is queued
R_Put ==
    /\ Len(q.pkts) < MaxQueue
    /\ q' = packet_queue_put(q, DataPkt(1, 0)).q
    /\ UNCHANGED <<varsPQh, othersPipe, f, fqRest, fq_pushed, varsPipe>>

R_Seek ==
    /\ q.serial < MaxSerial
    /\ q' = handle_seek(q)
    /\ UNCHANGED <<varsPQh, othersPipe, f, fqRest, fq_pushed, varsPipe>>

D_Receive ==
    /\ dpc = "receive"
    /\ fq_pushed < MaxFrames
    /\ LET r == decoder_receive(dec, q) IN
          /\ dec' = r.dec
          /\ dpc' = IF r.ret < 0 THEN "exit" ELSE IF r.ret = 1 THEN "queue" ELSE "get"
    /\ UNCHANGED <<varsPQ, othersPipe, f, fqRest, fq_pushed, strm, force_refresh, vr_disp>>

\* packet_queue_get(d->queue, &pkt, 1, &d->pkt_serial), blocking
D_Get ==
    /\ dpc = "get"
    /\ LET r == packet_queue_get(q) IN
          /\ r.ret # 0
          /\ q' = r.q
          /\ IF r.ret < 0
             THEN dec' = dec /\ dpc' = "exit"
             ELSE LET n == decoder_feed(dec, r.q, r.pkt, r.serial) IN
                  /\ dec' = n.dec
                  /\ dpc' = IF n.again THEN "get" ELSE "receive"
    /\ UNCHANGED <<varsPQh, othersPipe, f, fqRest, fq_pushed, strm, force_refresh, vr_disp>>

\* queue_picture (video_thread) / the push of audio_thread
D_Queue ==
    /\ dpc = "queue"
    /\ ~frame_queue_peek_writable_wait(f, q)
    /\ IF q.abort_request = 1
       THEN dpc' = "exit" /\ UNCHANGED <<f, fq_pushed>>
       ELSE /\ f' = queue_picture(f, fq_pushed + 1, dec.pkt_serial)
            /\ fq_pushed' = fq_pushed + 1
            /\ dpc' = "receive"
    /\ UNCHANGED <<varsPQ, othersPipe, fqRest, strm, dec, force_refresh, vr_disp>>

\* event_loop: SDL_WINDOWEVENT_EXPOSED / RESIZED, the f key
U_Expose ==
    /\ strm = "video"
    /\ force_refresh = 0
    /\ force_refresh' = 1
    /\ UNCHANGED <<varsPQ, othersPipe, varsFQ, strm, dec, dpc, vr_disp>>

LateDrops == 0 .. 1

\* video_refresh, unpaused, with a video stream
V_Refresh ==
    /\ strm = "video"
    /\ \E late \in LateDrops, due \in BOOLEAN :
          LET r == video_refresh_retry(f, q.serial, late, due)
              display == (force_refresh = 1 \/ r.shown) /\ r.f.rindex_shown = 1
              vp == frame_queue_peek_last(r.f)
          IN  /\ f' = IF display THEN video_image_display(r.f) ELSE r.f
              /\ vr_disp' = IF display
                            THEN [id |-> vp.id, serial |-> vp.serial,
                                  qserial |-> q.serial, fresh |-> vp.uploaded = 0]
                            ELSE vr_disp
    /\ force_refresh' = 0
    /\ UNCHANGED <<varsPQ, othersPipe, fqRest, fq_pushed, strm, dec, dpc>>

\* audio_decode_frame, unpaused: one round of its do-while; the frame is
\* played when its serial is the queue's
A_DecodeFrame ==
    /\ strm = "audio"
    /\ ~frame_queue_peek_readable_wait(f, q)
    /\ q.abort_request = 0
    /\ LET af == frame_queue_peek(f) IN
          /\ f' = frame_queue_next(f)
          /\ vr_disp' = IF af.serial # q.serial THEN vr_disp
                        ELSE [id |-> af.id, serial |-> af.serial,
                              qserial |-> q.serial, fresh |-> TRUE]
    /\ UNCHANGED <<varsPQ, othersPipe, fqRest, fq_pushed, strm, dec, dpc, force_refresh>>

NextPipe ==
    \/ R_Put \/ R_Seek \/ D_Receive \/ D_Get \/ D_Queue
    \/ U_Expose \/ V_Refresh \/ A_DecodeFrame

SpecPipe == InitPipe /\ [][NextPipe]_vars

(***************************************************************************)
(* Claims about the pipeline (SpecPipe)                                    *)
(***************************************************************************)
\* C5: after a seek raised the queue's serial, a frame of the prior epoch
\* is dropped, never displayed or played: a frame that goes to the display
\* or the audio device for the first time carries the queue's serial.
C5_StaleFrameNotRendered ==
    vr_disp.fresh => vr_disp.serial = vr_disp.qserial

\* C6 as stated: every frame of serial S is consumed before a frame of
\* serial S+1 is pushed, so the frames not yet read share one serial
C6_Original ==
    \A i, j \in DOMAIN Unread(f) : Unread(f)[i] = Unread(f)[j]

\* C6 amended: frames are pushed in the order of their serials and read in
\* the order pushed: the serials of the unread frames never decrease along
\* the queue and none is below the serial of the frame read last, so every
\* frame of serial S is consumed before any frame of serial S+1 is consumed
C6_SerialOrder ==
    /\ \A i, j \in DOMAIN Unread(f) : i <= j => Unread(f)[i] <= Unread(f)[j]
    /\ \A i \in DOMAIN Unread(f) :
          f.rindex_shown = 1 => frame_queue_peek_last(f).serial <= Unread(f)[i]

\* C6 witness: a frame of serial 2 was pushed behind an unread frame of
\* serial 1, after a frame of serial 1 was consumed
C6_Witness ==
    /\ f.rindex_shown = 1
    /\ frame_queue_peek_last(f).serial = 1
    /\ frame_queue_nb_remaining(f) = 2
    /\ Unread(f) = <<1, 2>>

(***************************************************************************)
(* SpecClock: the three clocks of a VideoState under the handlers that     *)
(* write them: the video refresh, the audio callback, the reader's seek    *)
(* and pause handling, the user's pause, a stream switch, the external     *)
(* clock's speed control, and the passing of time.                         *)
(***************************************************************************)
FramePts == {Dbl(2000), NAN}
SeekTargets == {Dbl(20000), NAN}
AudioLatency == {500}

\* the master clock reads a value and was written by a renderer (src)
Stamped(vs2, time, src) ==
    /\ ~isnan(get_master_clock(vs2, time))
    /\ get_master_sync_type(vs2) = AV_SYNC_VIDEO_MASTER => src = "video"
    /\ get_master_sync_type(vs2) = AV_SYNC_AUDIO_MASTER => src = "audio"

\* the basis of the master clock went: its queue's serial moved, or the
\* external clock was set to NaN
Invalidated(vs, vs2) ==
    IF get_master_sync_type(vs2) = AV_SYNC_EXTERNAL_CLOCK
    THEN isnan(vs2.extclk.pts)
    ELSE QueueSerial(vs2, MasterClk(vs2)) # QueueSerial(vs, MasterClk(vs))

\* the history after a handler took the VideoState from vs to vs2
HistStep(h, vs, vs2, time, src) ==
    LET st == src # "none" /\ Stamped(vs2, time, src) IN
    IF h.mode = "stamp"
    THEN [h EXCEPT !.everset = @ \/ st,
                   !.mset = IF Invalidated(vs, vs2) THEN FALSE ELSE @ \/ st]
    ELSE [h EXCEPT !.dirty = @ \/ (/\ vs.paused = 1
                                    /\ \/ MasterClk(vs2) # MasterClk(vs)
                                       \/ Invalidated(vs, vs2))]

\* the history after stream_toggle_pause took the VideoState from vs to vs2:
\* the master clock read just before the pause, just after the resume, and
\* how long the pause lasted (the external clock is restamped at the pause)
HistToggle(h, vs, vs2, time) ==
    IF h.mode = "stamp" THEN [h EXCEPT !.resumed = vs.paused = 1]
    ELSE IF vs.paused = 0
    THEN [h EXCEPT !.pre = get_master_clock(vs, time),
                   !.post = NAN, !.length = 0,
                   !.resumed = FALSE, !.dirty = FALSE]
    ELSE [h EXCEPT !.post = get_master_clock(vs2, time), !.resumed = TRUE,
                   !.length = time - vs.extclk.last_updated]

\* the players the clock specifications start from: <<av_sync_type, video
\* stream, audio stream, realtime, what av_read_pause returns>>
Players ==
    { <<AV_SYNC_AUDIO_MASTER, 1, 1, 0, AVERROR_ENOSYS>>,
      <<AV_SYNC_VIDEO_MASTER, 1, 1, 0, 0>>,
      <<AV_SYNC_EXTERNAL_CLOCK, 1, 1, 1, 0>>,
      <<AV_SYNC_VIDEO_MASTER, 1, 0, 0, AVERROR_ENOSYS>>,
      <<AV_SYNC_AUDIO_MASTER, 1, 0, 0, 0>>,
      <<AV_SYNC_VIDEO_MASTER, 0, 1, 0, AVERROR_ENOSYS>>,
      <<AV_SYNC_EXTERNAL_CLOCK, 0, 1, 0, AVERROR_ENOSYS>> }

InitClocks(mode) ==
    /\ QueuesParked
    /\ SpeedParked
    /\ AbortParked
    /\ now = 0
    /\ \E p \in Players : is = VideoState(p[1], p[2], p[3], p[4], p[5])
    /\ clk_h = NoHist(mode)

InitClock == InitClocks("stamp")
InitPause == InitClocks("pause")

\* what the environment has produced so far: the seconds passed, the flush
\* sentinels the packet queues took since the streams were opened, and the
\* steps the external clock's speed is away from 1.0
Events(vs, time) ==
    time + (vs.videoq_serial - vs.video_st) + (vs.audioq_serial - vs.audio_st)
         + fabs(vs.extclk.speed - One)

othersClock == <<varsPQ, varsFQ, varsPipe, varsSpeed, varsAbort, varsRead,
      varsSeek>>

ClkTick ==
    /\ Events(is, now) < MaxEvents
    /\ now' = now + 1
    /\ UNCHANGED <<othersClock, varsClock>>

\* video_refresh, lines 1920-1953: the frame's pts goes to the video clock,
\* a stepping player pauses again
ClkVideoFrame ==
    /\ is.paused = 0
    /\ is.video_st = 1
    /\ \E pts \in FramePts :
          LET vs1 == IF isnan(pts) THEN is
                     ELSE update_video_pts(is, pts, is.videoq_serial, now)
              h1 == HistStep(clk_h, is, vs1, now, "video")
          IN  IF vs1.step = 1
              THEN /\ is' = stream_toggle_pause(vs1, now)
                   /\ clk_h' = HistToggle(h1, vs1, stream_toggle_pause(vs1, now), now)
              ELSE /\ is' = vs1
                   /\ clk_h' = h1
    /\ UNCHANGED <<othersClock, now>>

\* sdl_audio_callback with a frame from audio_decode_frame
ClkAudioFrame ==
    /\ is.paused = 0
    /\ is.audio_st = 1
    /\ \E pts \in FramePts, latency \in AudioLatency :
          LET vs1 == audio_callback_clock(
                         update_audio_pts(is, pts, is.audioq_serial), latency, now)
          IN  /\ is' = vs1
              /\ clk_h' = HistStep(clk_h, is, vs1, now, "audio")
    /\ UNCHANGED <<othersClock, now>>

\* sdl_audio_callback without a new frame (paused, or the buffer not used up)
ClkAudioCallback ==
    /\ is.audio_st = 1
    /\ \E latency \in AudioLatency :
          LET vs1 == audio_callback_clock(is, latency, now)
          IN  /\ is' = vs1
              /\ clk_h' = HistStep(clk_h, is, vs1, now,
                             IF is.audio_clock_serial = is.audioq_serial
                             THEN "audio" ELSE "none")
    /\ UNCHANGED <<othersClock, now>>

ClkSeek ==
    /\ Events(is, now) + is.video_st + is.audio_st <= MaxEvents
    /\ \E target \in SeekTargets :
          LET vs1 == [is EXCEPT !.videoq_serial = @ + is.video_st,
                                !.audioq_serial = @ + is.audio_st,
                                !.extclk = set_clock(@, target, 0, now)]
              vs2 == clock_handle_seek(is, target, now)
              h1 == HistStep(clk_h, is, vs1, now, "none")
          IN  /\ is' = vs2
              /\ clk_h' = IF is.paused = 1 THEN HistToggle(h1, vs1, vs2, now) ELSE h1
    /\ UNCHANGED <<othersClock, now>>

\* toggle_pause
ClkTogglePause ==
    /\ is' = [stream_toggle_pause(is, now) EXCEPT !.step = 0]
    /\ clk_h' = HistToggle(clk_h, is, stream_toggle_pause(is, now), now)
    /\ UNCHANGED <<othersClock, now>>

ClkReadPause ==
    /\ is.paused # is.last_paused
    /\ is' = read_thread_loop_handle_pause(is)
    /\ UNCHANGED <<othersClock, now, clk_h>>

\* video_refresh, lines 1868-1871
ClkCheckSpeed ==
    /\ is.paused = 0
    /\ get_master_sync_type(is) = AV_SYNC_EXTERNAL_CLOCK
    /\ is.realtime = 1
    /\ \E branch \in {"low", "high", "mid"} :
          LET vs1 == check_external_clock_speed(is, branch, now) IN
          /\ Events(vs1, now) <= MaxEvents
          /\ is' = vs1
          /\ clk_h' = HistStep(clk_h, is, vs1, now, "none")
    /\ UNCHANGED <<othersClock, now>>

\* stream_cycle_channel: the stream is closed and another one opened, and
\* decoder_start restarts its packet queue
ClkStreamSwitch ==
    /\ \E st \in {"video", "audio"} :
          LET vs1 == IF st = "video"
                     THEN [is EXCEPT !.videoq_serial = @ + 1]
                     ELSE [is EXCEPT !.audioq_serial = @ + 1]
          IN  /\ Events(is, now) < MaxEvents
              /\ IF st = "video" THEN is.video_st = 1 ELSE is.audio_st = 1
              /\ is' = vs1
              /\ clk_h' = HistStep(clk_h, is, vs1, now, "none")
    /\ UNCHANGED <<othersClock, now>>

NextClock ==
    \/ ClkTick \/ ClkVideoFrame \/ ClkAudioFrame \/ ClkAudioCallback \/ ClkSeek
    \/ ClkTogglePause \/ ClkReadPause \/ ClkCheckSpeed \/ ClkStreamSwitch

SpecClock == InitClock /\ [][NextClock]_vars
SpecPause == InitPause /\ [][NextClock]_vars

(***************************************************************************)
(* Claims about the clocks (SpecClock)                                     *)
(***************************************************************************)
\* C7 as stated: once the master clock has been set from a frame and the
\* player is unpaused, get_master_clock() is never NaN
C7_Original ==
    (clk_h.everset /\ is.paused = 0) => ~isnan(get_master_clock(is, now))

\* C7 amended: once the clock selected as master has been set from a frame of
\* the current serial of its packet queue, get_master_clock() is not NaN for
\* as long as that queue keeps its serial and no seek by bytes sets the
\* external clock to NaN, pause and resume included; a seek or a stream
\* switch ends it until the clock is set from a frame again
C7_MasterValidUntilNextSerial ==
    clk_h.mset => ~isnan(get_master_clock(is, now))

\* C7 witness: after a seek and a pause/resume the master (audio) clock has
\* been stamped again and time has passed
C7_Witness ==
    /\ clk_h.mset
    /\ clk_h.resumed
    /\ is.paused = 0
    /\ get_master_sync_type(is) = AV_SYNC_AUDIO_MASTER
    /\ is.audioq_serial >= 2
    /\ now > is.audclk.last_updated

(***************************************************************************)
(* Claims about pause and resume (SpecPause)                               *)
(***************************************************************************)
\* C8 as stated: for every master clock, the value read just before
\* stream_toggle_pause pauses equals the value read just after the next
\* stream_toggle_pause resumes (nothing else having set the master clock
\* during the pause)
C8_Original ==
    (clk_h.mode = "pause" /\ clk_h.resumed /\ ~clk_h.dirty)
        => clk_h.post = clk_h.pre

\* C8 amended: when the external clock is the master, the value read just
\* before stream_toggle_pause pauses equals the value read just after the
\* next stream_toggle_pause resumes, however long the pause lasted, provided
\* nothing else (seek, sync to the audio or video clock) set the external
\* clock during the pause
C8_ExtRoundTrip ==
    (/\ clk_h.mode = "pause" /\ clk_h.resumed /\ ~clk_h.dirty
     /\ get_master_sync_type(is) = AV_SYNC_EXTERNAL_CLOCK)
        => clk_h.post = clk_h.pre

\* C8 witness: the external master had a value, the pause lasted, and the
\* player has resumed
C8_Witness ==
    /\ clk_h.mode = "pause" /\ clk_h.resumed /\ ~clk_h.dirty
    /\ get_master_sync_type(is) = AV_SYNC_EXTERNAL_CLOCK
    /\ ~isnan(clk_h.pre)
    /\ clk_h.length >= 1
    /\ is.paused = 0

(***************************************************************************)
(* SpecSpeed: one Clock (as the external clock, whose speed is the only    *)
(* one the program changes) under set_clock, set_clock_speed, pause, the   *)
(* flush of its queue, and the passing of time.                            *)
(***************************************************************************)
Speeds ==
    {EXTERNAL_CLOCK_SPEED_MIN, One - EXTERNAL_CLOCK_SPEED_STEP, One,
     EXTERNAL_CLOCK_SPEED_MAX}
SpeedPts == {Dbl(0), Dbl(2500), NAN}

othersSpeed == <<varsPQ, varsFQ, varsPipe, varsClock, varsAbort, varsRead,
      varsSeek>>

InitSpeed ==
    /\ QueuesParked
    /\ IsParked
    /\ AbortParked
    /\ now = 0
    /\ clk = init_clock("queue", 0)
    /\ clk_qs = 0
    /\ clk_step = NoStep

SpdTick ==
    /\ now < MaxTime
    /\ now' = now + 1
    /\ clk_step' = NoStep
    /\ UNCHANGED <<othersSpeed, clk, clk_qs>>

\* set_clock with a pts of the queue's current serial
SpdSetClock ==
    /\ \E pts \in SpeedPts : clk' = set_clock(clk, pts, clk_qs, now)
    /\ clk_step' = NoStep
    /\ UNCHANGED <<othersSpeed, now, clk_qs>>

\* set_clock_speed; the history takes get_clock() on both sides of the call
\* and lasts until the next step
SpdSetClockSpeed ==
    /\ \E speed \in Speeds :
          /\ clk' = set_clock_speed(clk, clk_qs, speed, now)
          /\ clk_step' =
                [before |-> get_clock(clk, clk_qs, now),
                 after |-> get_clock(set_clock_speed(clk, clk_qs, speed, now),
                                     clk_qs, now),
                 applies |-> clk.paused = 0 /\ clk.serial = clk_qs,
                 elapsed |-> now - clk.last_updated,
                 old |-> clk.speed, new |-> speed]
    /\ UNCHANGED <<othersSpeed, now, clk_qs>>

\* a flush sentinel enters the clock's queue
SpdFlush ==
    /\ clk_qs < MaxSerial
    /\ clk_qs' = clk_qs + 1
    /\ clk_step' = NoStep
    /\ UNCHANGED <<othersSpeed, now, clk>>

\* stream_toggle_pause, what it does to one clock
SpdPause ==
    /\ clk' = [set_clock(clk, get_clock(clk, clk_qs, now), clk.serial, now)
                  EXCEPT !.paused = 1 - clk.paused]
    /\ clk_step' = NoStep
    /\ UNCHANGED <<othersSpeed, now, clk_qs>>

NextSpeed == SpdTick \/ SpdSetClock \/ SpdSetClockSpeed \/ SpdFlush \/ SpdPause

SpecSpeed == InitSpeed /\ [][NextSpeed]_vars

(***************************************************************************)
(* Claims about set_clock_speed (SpecSpeed)                                *)
(***************************************************************************)
\* C9: for an unpaused clock on its queue's serial, get_clock() right after
\* set_clock_speed equals get_clock() right before it (NaN stays NaN), for
\* every old and new speed, pts and time since the clock was last set
C9_SpeedChangeNoStep ==
    clk_step.applies => clk_step.after = clk_step.before

\* C9 witness: the speed really changed, on a clock that has a value and
\* was last set some time ago
C9_Witness ==
    /\ clk_step.applies
    /\ ~isnan(clk_step.before)
    /\ clk_step.elapsed >= 1
    /\ clk_step.old # One
    /\ clk_step.new # clk_step.old
    /\ clk.speed = clk_step.new

(***************************************************************************)
(* SpecAbort: the threads of an opened player, the reader, one decoder     *)
(* thread per stream and the renderers that take frames, and the thread    *)
(* that calls stream_close.  A thread in SDL_CondWait is in the waiter set *)
(* of the condition until a signal takes it out.  Of a FrameQueue only     *)
(* what its waits test is driven, size against max_size; the ring indexes  *)
(* stay where frame_queue_init puts them.                                  *)
(***************************************************************************)
othersAbort == <<varsPQ, varsFQ, varsPipe, now, varsClock, varsSpeed, varsRead,
      varsSeek>>

InitAbort ==
    /\ QueuesParked
    /\ ClockParked
    /\ abort_request = 0
    /\ th_q = [s \in StreamSet |-> packet_queue_start(packet_queue_init)]
    /\ th_f = [s \in StreamSet |-> frame_queue_init(MaxThFrames, 1)]
    /\ th_qwait = [s \in StreamSet |-> {}]
    /\ th_fwait = [s \in StreamSet |-> {}]
    /\ th_read = "top"
    /\ th_dec = [s \in StreamSet |-> "get"]
    /\ th_close = [pc |-> "play", i |-> 0, log |-> <<>>]
    /\ th_at = {}
    /\ ReadParked

\* stream_has_enough_packets, with MaxThPackets for MIN_FRAMES + 1 (the
\* packets of the model have no duration)
stream_has_enough_packets(pq) ==
    pq.abort_request = 1 \/ pq.nb_packets >= MaxThPackets

\* the test of read_thread_loop_handle_queue_full, with the size of
\* MaxThPackets packets for MAX_QUEUE_SIZE
queue_full(qs) ==
    \/ qs[Streams[1]].size + qs[Streams[2]].size
          > MaxThPackets * (1 + SizeofMyAVPacketList)
    \/ \A s \in StreamSet : stream_has_enough_packets(qs[s])

\* read_thread_loop, the top of the loop: the abort test, then the
\* handlers down to read_thread_loop_handle_queue_full
ReadTop ==
    /\ th_read = "top"
    /\ th_read' = IF abort_request = 1 THEN "exit"
                  ELSE IF queue_full(th_q) THEN "wait" ELSE "read"
    /\ UNCHANGED <<othersAbort, abort_request, th_q, th_f, th_qwait, th_fwait,
                   th_dec, th_close, th_at>>

\* SDL_CondWaitTimeout(continue_read_thread, 10 ms) returns
ReadWait ==
    /\ th_read = "wait"
    /\ th_read' = "top"
    /\ UNCHANGED <<othersAbort, abort_request, th_q, th_f, th_qwait, th_fwait,
                   th_dec, th_close, th_at>>

\* av_read_frame: a packet for one of the streams is queued (the put signals
\* q->cond), or nothing was read and the reader waits 10 ms
ReadPacket ==
    /\ th_read = "read"
    /\ \/ /\ \E s \in StreamSet :
                LET r == packet_queue_put(th_q[s], DataPkt(1, 0)) IN
                /\ th_q' = [th_q EXCEPT ![s] = r.q]
                /\ \E w \in SDL_CondSignal(th_qwait[s]) :
                      th_qwait' = [th_qwait EXCEPT ![s] =
                                      IF r.ret = 0 THEN w ELSE @]
          /\ th_read' = "top"
       \/ /\ th_read' = "wait"
          /\ UNCHANGED <<th_q, th_qwait>>
    /\ UNCHANGED <<othersAbort, abort_request, th_f, th_fwait, th_dec, th_close,
                   th_at>>

Reader == ReadTop \/ ReadWait \/ ReadPacket

\* decoder_decode_frame, the packet fetch: packet_queue_get under q->mutex
\* ends the thread on abort, hands out a packet (the flush sentinel only
\* flushes the codec), or waits on q->cond
DecGet(s) ==
    /\ th_dec[s] = "get"
    /\ LET r == packet_queue_get(th_q[s]) IN
       /\ th_q' = [th_q EXCEPT ![s] = r.q]
       /\ th_dec' = [th_dec EXCEPT ![s] =
                        IF r.ret < 0 THEN "exit"
                        ELSE IF r.ret = 0 THEN "get_wait"
                        ELSE IF r.pkt.kind = "flush" THEN "get" ELSE "receive"]
       /\ th_qwait' = [th_qwait EXCEPT ![s] =
                          IF r.ret = 0 THEN @ \cup {"decoder"} ELSE @]
    /\ UNCHANGED <<othersAbort, abort_request, th_f, th_fwait, th_read, th_close,
                   th_at>>

\* SDL_CondWait(q->cond) returns after a signal
DecGetWake(s) ==
    /\ th_dec[s] = "get_wait"
    /\ "decoder" \notin th_qwait[s]
    /\ th_dec' = [th_dec EXCEPT ![s] = "get"]
    /\ UNCHANGED <<othersAbort, abort_request, th_q, th_f, th_qwait, th_fwait,
                   th_read, th_close, th_at>>

\* decoder_decode_frame, the frame fetch: abort is tested before the codec
\* gives the frame
DecReceive(s) ==
    /\ th_dec[s] = "receive"
    /\ th_dec' = [th_dec EXCEPT ![s] =
                     IF th_q[s].abort_request = 1 THEN "exit" ELSE "writable"]
    /\ UNCHANGED <<othersAbort, abort_request, th_q, th_f, th_qwait, th_fwait,
                   th_read, th_close, th_at>>

\* frame_queue_peek_writable, the loop under f->mutex
DecPeekWritable(s) ==
    /\ th_dec[s] = "writable"
    /\ IF frame_queue_peek_writable_wait(th_f[s], th_q[s])
       THEN /\ th_dec' = [th_dec EXCEPT ![s] = "wr_wait"]
            /\ th_fwait' = [th_fwait EXCEPT ![s] = @ \cup {"decoder"}]
       ELSE /\ th_dec' = [th_dec EXCEPT ![s] = "wr_check"]
            /\ th_fwait' = th_fwait
    /\ UNCHANGED <<othersAbort, abort_request, th_q, th_f, th_qwait, th_read,
                   th_close, th_at>>

\* SDL_CondWait(f->cond) returns after a signal
DecWritableWake(s) ==
    /\ th_dec[s] = "wr_wait"
    /\ "decoder" \notin th_fwait[s]
    /\ th_dec' = [th_dec EXCEPT ![s] = "writable"]
    /\ UNCHANGED <<othersAbort, abort_request, th_q, th_f, th_qwait, th_fwait,
                   th_read, th_close, th_at>>

\* frame_queue_peek_writable after the mutex (NULL on abort ends the
\* thread), then the frame is filled and frame_queue_push signals f->cond
DecPush(s) ==
    /\ th_dec[s] = "wr_check"
    /\ IF th_q[s].abort_request = 1
       THEN /\ th_dec' = [th_dec EXCEPT ![s] = "exit"]
            /\ UNCHANGED <<th_f, th_fwait>>
       ELSE /\ th_dec' = [th_dec EXCEPT ![s] = "get"]
            /\ th_f' = [th_f EXCEPT ![s] = frame_queue_push_size(@)]
            /\ \E w \in SDL_CondSignal(th_fwait[s]) :
                  th_fwait' = [th_fwait EXCEPT ![s] = w]
    /\ UNCHANGED <<othersAbort, abort_request, th_q, th_qwait, th_read, th_close,
                   th_at>>

Decoder(s) ==
    \/ DecGet(s) \/ DecGetWake(s) \/ DecReceive(s)
    \/ DecPeekWritable(s) \/ DecWritableWake(s) \/ DecPush(s)

\* a renderer (video_refresh, the audio callback) is done with a frame:
\* frame_queue_next under f->mutex, size-- and the signal on f->cond
Consume(s) ==
    /\ frame_queue_nb_remaining(th_f[s]) > 0
    /\ th_f' = [th_f EXCEPT ![s] = frame_queue_next_size(@)]
    /\ \E w \in SDL_CondSignal(th_fwait[s]) :
          th_fwait' = [th_fwait EXCEPT ![s] = w]
    /\ UNCHANGED <<othersAbort, abort_request, th_q, th_qwait, th_read, th_dec,
                   th_close, th_at>>

\* how the reader and the decoder threads are blocked
Blocked ==
    {th_dec[s] : s \in {t \in StreamSet : th_dec[t] \in {"get_wait", "wr_wait"}}}
        \cup (IF th_read = "wait" THEN {"wait"} ELSE {})

\* mutant: the queues are freed before the container is closed
stream_close_next_QueuesFirst(pc) ==
    CASE pc = "join_dec" -> "fq_destroy"
      [] pc = "fq_destroy" -> "pq_destroy"
      [] pc = "pq_destroy" -> "close_input"
      [] pc = "close_input" -> "done"

\* stream_close, what follows the stream_component_close calls: the step
\* taken after each step
stream_close_next(pc) ==
    CASE pc = "join_dec" -> "close_input"
      [] pc = "close_input" -> "pq_destroy"
      [] pc = "pq_destroy" -> "fq_destroy"
      [] pc = "fq_destroy" -> "done"

\* stream_close: is->abort_request = 1
CloseStart ==
    /\ th_close.pc = "play"
    /\ abort_request' = 1
    /\ th_close' = [th_close EXCEPT !.pc = "join_reader"]
    /\ th_at' = IF Blocked = {"get_wait", "wr_wait", "wait"} THEN Blocked ELSE {}
    /\ UNCHANGED <<othersAbort, th_q, th_f, th_qwait, th_fwait, th_read, th_dec>>

\* SDL_WaitThread(is->read_tid) returns
CloseJoinReader ==
    /\ th_close.pc = "join_reader"
    /\ th_read = "exit"
    /\ th_close' = [pc |-> "pq_abort", i |-> 1,
                    log |-> Append(th_close.log, "reader joined")]
    /\ UNCHANGED <<othersAbort, abort_request, th_q, th_f, th_qwait, th_fwait,
                   th_read, th_dec, th_at>>

\* decoder_abort: packet_queue_abort, with its signal on q->cond
ClosePQAbort ==
    /\ th_close.pc = "pq_abort"
    /\ LET s == Streams[th_close.i] IN
       /\ th_q' = [th_q EXCEPT ![s] = packet_queue_abort(@)]
       /\ \E w \in SDL_CondSignal(th_qwait[s]) :
             th_qwait' = [th_qwait EXCEPT ![s] = w]
    /\ th_close' = [th_close EXCEPT !.pc = "fq_signal"]
    /\ UNCHANGED <<othersAbort, abort_request, th_f, th_fwait, th_read, th_dec,
                   th_at>>

\* decoder_abort: frame_queue_signal
CloseFQSignal ==
    /\ th_close.pc = "fq_signal"
    /\ LET s == Streams[th_close.i] IN
       \E w \in SDL_CondSignal(th_fwait[s]) :
          th_fwait' = [th_fwait EXCEPT ![s] = w]
    /\ th_close' = [th_close EXCEPT !.pc = "join_dec"]
    /\ UNCHANGED <<othersAbort, abort_request, th_q, th_f, th_qwait, th_read,
                   th_dec, th_at>>

\* decoder_abort: SDL_WaitThread(d->decoder_tid) returns, the packet queue
\* is flushed, and stream_close goes on to the next stream
CloseJoinDecoder ==
    /\ th_close.pc = "join_dec"
    /\ LET s == Streams[th_close.i] IN
       /\ th_dec[s] = "exit"
       /\ th_q' = [th_q EXCEPT ![s] = packet_queue_flush(@)]
    /\ th_close' = [pc |-> IF th_close.i < Len(Streams) THEN "pq_abort"
                           ELSE stream_close_next("join_dec"),
                    i |-> IF th_close.i < Len(Streams) THEN th_close.i + 1
                          ELSE th_close.i,
                    log |-> Append(th_close.log, "decoder joined")]
    /\ UNCHANGED <<othersAbort, abort_request, th_f, th_qwait, th_fwait, th_read,
                   th_dec, th_at>>

\* stream_close: avformat_close_input
CloseInput ==
    /\ th_close.pc = "close_input"
    /\ th_close' = [th_close EXCEPT !.pc = stream_close_next("close_input"),
                                    !.log = Append(@, "container closed")]
    /\ UNCHANGED <<othersAbort, abort_request, th_q, th_f, th_qwait, th_fwait,
                   th_read, th_dec, th_at>>

\* stream_close: packet_queue_destroy of every queue (the flush, then the
\* mutex and the condition are destroyed)
ClosePQDestroy ==
    /\ th_close.pc = "pq_destroy"
    /\ th_q' = [s \in StreamSet |-> packet_queue_flush(th_q[s])]
    /\ th_close' = [th_close EXCEPT !.pc = stream_close_next("pq_destroy"),
                                    !.log = Append(@, "packet queues freed")]
    /\ UNCHANGED <<othersAbort, abort_request, th_f, th_qwait, th_fwait, th_read,
                   th_dec, th_at>>

\* stream_close: frame_queue_destory of every queue (the frames are freed;
\* no field of the queue is written)
CloseFQDestroy ==
    /\ th_close.pc = "fq_destroy"
    /\ th_close' = [th_close EXCEPT !.pc = stream_close_next("fq_destroy"),
                                    !.log = Append(@, "frame queues freed")]
    /\ UNCHANGED <<othersAbort, abort_request, th_q, th_f, th_qwait, th_fwait,
                   th_read, th_dec, th_at>>

Closer ==
    \/ CloseJoinReader \/ ClosePQAbort \/ CloseFQSignal \/ CloseJoinDecoder
    \/ CloseInput \/ ClosePQDestroy \/ CloseFQDestroy

NextAbort ==
    \/ Reader
    \/ \E s \in StreamSet : Decoder(s) \/ Consume(s)
    \/ CloseStart \/ Closer

\* a thread that can run does run: the reader, each decoder thread and the
\* closing thread are scheduled fairly; the renderers and the user are not
\* relied on
SpecAbort ==
    /\ InitAbort /\ [][NextAbort]_vars
    /\ WF_vars(Reader)
    /\ \A s \in StreamSet : WF_vars(Decoder(s))
    /\ WF_vars(Closer)

(***************************************************************************)
(* Claims about closing (SpecAbort)                                        *)
(***************************************************************************)
Closed ==
    /\ th_read = "exit"
    /\ \A s \in StreamSet : th_dec[s] = "exit"
    /\ th_close.pc = "done"

\* C10: once stream_close has raised abort_request, the reader thread and
\* every decoder thread eventually exit and every join of stream_close and
\* decoder_abort completes, whatever the threads were doing
C10_CancellationLiveness == (abort_request = 1) ~> Closed

\* C10 witness: the player is closed, and when abort_request was raised one
\* decoder thread was blocked in packet_queue_get, the other in
\* frame_queue_peek_writable, and the reader in its backpressure wait
C10_Witness ==
    /\ Closed
    /\ th_at = {"get_wait", "wr_wait", "wait"}

\* the steps of a teardown in the order stream_close takes them
TeardownOrder ==
    <<"reader joined">> \o [i \in 1 .. Len(Streams) |-> "decoder joined"]
        \o <<"container closed", "packet queues freed", "frame queues freed">>

\* the order in which C22 states them
TeardownOrderStated ==
    <<"reader joined">> \o [i \in 1 .. Len(Streams) |-> "decoder joined"]
        \o <<"frame queues freed", "packet queues freed", "container closed">>

IsPrefix(s, t) == Len(s) <= Len(t) /\ s = SubSeq(t, 1, Len(s))

\* C22 as stated: the reader is joined, then each decoder, then the frame
\* queues are freed, then the packet queues, and the container is closed last
C22_Original == IsPrefix(th_close.log, TeardownOrderStated)

\* C22 amended: the reader is aborted and joined, then each decoder is
\* aborted and joined, then the container is closed, then the packet queues
\* are freed, and the frame queues are freed last; a thread is joined only
\* once it has exited
C22_TeardownOrder ==
    /\ IsPrefix(th_close.log, TeardownOrder)
    /\ Len(th_close.log) >= 1 => abort_request = 1 /\ th_read = "exit"
    /\ \A i \in 1 .. Len(Streams) :
          Len(th_close.log) >= 1 + i =>
              th_dec[Streams[i]] = "exit" /\ th_q[Streams[i]].abort_request = 1

\* C22 witness: a teardown has run to its end, the frame queues freed last
C22_Witness ==
    /\ th_close.pc = "done"
    /\ th_close.log = TeardownOrder

(***************************************************************************)
(* SpecRead: the reader loop over the audio and the video PacketQueue with *)
(* buffering not infinite, decoders that take packets when they like, a    *)
(* user who seeks and a stream switch (stream_cycle_channel).  The reader  *)
(* stands at one of its handlers: "seek", "attach", "full", "read".        *)
(***************************************************************************)
SetMax(S) == CHOOSE x \in S : \A y \in S : y <= x

\* the attached picture of a video stream, as large as a packet gets
AttachedPic == DataPkt(SetMax(PktSizes), 0)

\* the bytes one queued packet is billed at most
MaxPktBill == SetMax(PktSizes) + SizeofMyAVPacketList

\* audioq.size + videoq.size (the subtitle queue is left out)
TotalSize(qs) == qs["audio"].size + qs["video"].size

othersRead ==
    <<varsPQ, varsFQ, varsPipe, now, varsClock, varsSpeed, abort_request, th_f,
      th_qwait, th_fwait, th_dec, th_close, th_at, varsSeek>>

InitRead ==
    /\ QueuesParked
    /\ ClockParked
    /\ abort_request = 0
    /\ th_q = [s \in StreamSet |-> packet_queue_start(packet_queue_init)]
    /\ th_f = [s \in StreamSet |-> frame_queue_init(1, 0)]
    /\ th_qwait = [s \in StreamSet |-> {}]
    /\ th_fwait = [s \in StreamSet |-> {}]
    /\ th_read = "seek"
    /\ th_dec = [s \in StreamSet |-> "none"]
    /\ th_close = [pc |-> "none", i |-> 0, log |-> <<>>]
    /\ th_at = {}
    /\ \E attached \in {0, 1} :
          rd = [NoRead(attached) EXCEPT !.queue_attachments_req = 1]
    /\ sk = NoSeek

\* stream_has_enough_packets for a stream that may be an attached picture
stream_has_enough_packets_pic(pq, attached) ==
    attached = 1 \/ stream_has_enough_packets(pq)

\* mutant: the bytes queued are tested against a limit one byte higher
read_thread_loop_handle_queue_full_Late(qs, attached) ==
    \/ TotalSize(qs) > MaxQueueBytes + 1
    \/ /\ stream_has_enough_packets_pic(qs["audio"], 0)
       /\ stream_has_enough_packets_pic(qs["video"], attached)

\* the test of read_thread_loop_handle_queue_full, MaxQueueBytes for
\* MAX_QUEUE_SIZE
read_thread_loop_handle_queue_full(qs, attached) ==
    \/ TotalSize(qs) > MaxQueueBytes
    \/ /\ stream_has_enough_packets_pic(qs["audio"], 0)
       /\ stream_has_enough_packets_pic(qs["video"], attached)

\* read_thread_loop_handle_seek: after a seek that succeeded every queue is
\* flushed and gets the flush sentinel; the attachments are asked for again
\* whether it succeeded or not (what it does to the clocks is
\* clock_handle_seek, kept apart in SpecClock)
RdSeek ==
    /\ th_read = "seek"
    /\ th_read' = "attach"
    /\ IF rd.seek_req = 1
       THEN \E ok \in BOOLEAN :
              /\ th_q' = IF ok
                         THEN [s \in StreamSet |->
                                 packet_queue_put(packet_queue_flush(th_q[s]),
                                                  flush_pkt).q]
                         ELSE th_q
              /\ rd' = [rd EXCEPT !.seek_req = 0, !.queue_attachments_req = 1,
                                  !.eof = 0,
                                  !.switched = IF ok THEN FALSE ELSE @]
       ELSE UNCHANGED <<th_q, rd>>
    /\ UNCHANGED othersRead

\* read_thread_loop_handle_queue_attachments_req
RdAttach ==
    /\ th_read = "attach"
    /\ th_read' = "full"
    /\ IF rd.queue_attachments_req = 1
       THEN /\ IF rd.attached = 1
               THEN \E d \in PktDurations :
                      th_q' = [th_q EXCEPT !["video"] =
                                 packet_queue_put(
                                     packet_queue_put(@, AttachedPic).q,
                                     NullPkt(d)).q]
               ELSE th_q' = th_q
            /\ rd' = [rd EXCEPT !.queue_attachments_req = 0]
       ELSE UNCHANGED <<th_q, rd>>
    /\ UNCHANGED othersRead

\* read_thread_loop_handle_queue_full: wait 10 ms and start over, or go on
RdFull ==
    /\ th_read = "full"
    /\ th_read' = IF read_thread_loop_handle_queue_full(th_q, rd.attached)
                  THEN "seek" ELSE "read"
    /\ UNCHANGED <<othersRead, th_q, rd>>

\* mutant: the end of the file puts its null packets whatever eof is
read_thread_loop_eof_Again(qs, r, da, dv) ==
    [qs |-> [qs EXCEPT !["video"] = packet_queue_put(@, NullPkt(dv)).q,
                       !["audio"] = packet_queue_put(@, NullPkt(da)).q],
     r |-> [r EXCEPT !.eof = 1]]

\* read_thread_loop, av_read_frame at the end of the file: with eof clear
\* every stream gets a null packet and eof is set
read_thread_loop_eof(qs, r, da, dv) ==
    IF r.eof = 0
    THEN [qs |-> [qs EXCEPT !["video"] = packet_queue_put(@, NullPkt(dv)).q,
                            !["audio"] = packet_queue_put(@, NullPkt(da)).q],
          r |-> [r EXCEPT !.eof = 1]]
    ELSE [qs |-> qs, r |-> r]

\* av_read_frame (ret is its result, eof_before is eof as it was before):
\* the end of the file (AVERROR_EOF, or avio_feof with any
\* error), an error that is not the end of the file, or a packet, which
\* clears eof and goes to the queue of its stream (the packets of an
\* attached picture stream are dropped)
RdRead ==
    /\ th_read = "read"
    /\ th_read' = "seek"
    /\ \/ \E da, dv \in PktDurations :
             LET n == read_thread_loop_eof(th_q, rd, da, dv) IN
                /\ th_q' = n.qs
                /\ rd' = [n.r EXCEPT !.ret = AVERROR_EOF, !.eof_before = rd.eof]
       \/ /\ th_q' = th_q
          /\ rd' = [rd EXCEPT !.ret = -1, !.eof_before = rd.eof]
       \/ \E s \in StreamSet, sz \in PktSizes :
             /\ th_q' = IF s = "video" /\ rd.attached = 1 THEN th_q
                        ELSE [th_q EXCEPT ![s] =
                                packet_queue_put(@, DataPkt(sz, 0)).q]
             /\ rd' = [rd EXCEPT !.eof = 0, !.ret = 0, !.eof_before = rd.eof]
    /\ UNCHANGED othersRead

\* a decoder takes a packet
RdTake(s) ==
    /\ packet_queue_get(th_q[s]).ret = 1
    /\ th_q' = [th_q EXCEPT ![s] = packet_queue_get(@).q]
    /\ UNCHANGED <<othersRead, th_read, rd>>

\* stream_seek
RdUserSeek ==
    /\ rd.seek_req = 0
    /\ rd.events < MaxEvents
    /\ rd' = [rd EXCEPT !.seek_req = 1, !.events = @ + 1]
    /\ UNCHANGED <<othersRead, th_read, th_q>>

\* stream_cycle_channel: decoder_abort aborts and flushes the queue of the
\* closed stream, stream_component_open clears eof and decoder_start
\* restarts the queue; a video stream asks for the attachments
RdSwitch(s) ==
    /\ rd.events < MaxEvents
    /\ th_q' = [th_q EXCEPT ![s] =
                   packet_queue_start(packet_queue_flush(packet_queue_abort(@)))]
    /\ rd' = [rd EXCEPT !.switched = TRUE, !.events = @ + 1, !.eof = 0,
                        !.queue_attachments_req = IF s = "video" THEN 1 ELSE @]
    /\ UNCHANGED <<othersRead, th_read>>

NextRead ==
    \/ RdSeek \/ RdAttach \/ RdFull \/ RdRead \/ RdUserSeek
    \/ \E s \in StreamSet : RdTake(s) \/ RdSwitch(s)

SpecRead == InitRead /\ [][NextRead]_vars

(***************************************************************************)
(* Claims about the reader loop (SpecRead)                                 *)
(***************************************************************************)
\* C11 as stated: the bytes queued in all PacketQueues never exceed
\* MAX_QUEUE_SIZE plus what one packet is billed, whatever the reader
\* enqueued (packets, attached pictures, null packets, flush sentinels)
C11_Original ==
    TotalSize(th_q) <= MaxQueueBytes + MaxPktBill

\* C11 amended: without an attached picture stream and with no stream
\* switched since the queues were last flushed, the bytes queued never
\* exceed MAX_QUEUE_SIZE plus one demuxed packet or, at the end of the
\* file, one null packet per stream
C11_ReaderBound ==
    (rd.attached = 0 /\ ~rd.switched)
        => TotalSize(th_q)
              <= MaxQueueBytes + Max(MaxPktBill, 2 * SizeofMyAVPacketList)

\* C11 witness: the reader put the largest packet with the queues just at
\* the limit, so that the bytes queued reach the bound, and now waits
C11_Witness ==
    /\ rd.attached = 0 /\ ~rd.switched
    /\ TotalSize(th_q) = MaxQueueBytes + MaxPktBill
    /\ read_thread_loop_handle_queue_full(th_q, rd.attached)
    /\ th_read = "seek"

\* the null packets a queue holds
NullCount(pq) ==
    Cardinality({i \in 1 .. Len(pq.pkts) : pq.pkts[i].pkt.kind = "null"})

\* the step put one null packet at the end of the queue of s
NullPut(s) ==
    /\ Len(th_q'[s].pkts) = Len(th_q[s].pkts) + 1
    /\ SubSeq(th_q'[s].pkts, 1, Len(th_q[s].pkts)) = th_q[s].pkts
    /\ th_q'[s].pkts[Len(th_q'[s].pkts)].pkt.kind = "null"

\* the reader passes av_read_frame
ReadStep == th_read = "read" /\ th_read' = "seek"

MaxKeys == 2                  \* seek keys pressed in one behaviour

AV_TIME_BASE == 1000000
AV_NOPTS_VALUE == -2147483647 \* INT64_MIN in the source: below every time
AVSEEK_FLAG_BYTE == 2

\* incr of SDLK_PAGEDOWN, SDLK_DOWN, SDLK_LEFT, SDLK_RIGHT, SDLK_UP,
\* SDLK_PAGEUP, in seconds
SeekKeys == {-600, -60, -10, 10, 60, 600}

\* what get_master_clock returns to do_seek
SeekMasters == {NAN, Dbl(0), Dbl(5 * One), Dbl(20 * One)}

\* ic->start_time
SeekStartTimes == {AV_NOPTS_VALUE, 0, 5 * AV_TIME_BASE}

\* ic->bit_rate
SeekBitRates == {0, 8000}

\* frame_queue_last_pos of pictq and of sampq (-1: no frame shown), and
\* avio_tell
SeekLastPos == {-1, 0, 4000000}

\* x / (double)AV_TIME_BASE and (int64_t)(x * AV_TIME_BASE), a double being
\* thousandths
ToSeconds(t) == Dbl(t \div (AV_TIME_BASE \div One))
ToTimeBase(x) == x.v * (AV_TIME_BASE \div One)

\* mutant: the target is not raised to start_time
do_seek_NoClamp(s, incr) ==
    IF s.seek_by_bytes # 0
    THEN LET pos1 == IF s.last_pos_v >= 0 THEN s.last_pos_v
                     ELSE IF s.last_pos_a >= 0 THEN s.last_pos_a
                     ELSE s.tell
             incr1 == IF s.bit_rate # 0 THEN incr * (s.bit_rate \div 8)
                      ELSE incr * 180000
         IN  [pos |-> pos1 + incr1, rel |-> incr1, seek_by_bytes |-> 1]
    ELSE LET pos1 == IF isnan(s.master) THEN ToSeconds(s.seek_pos) ELSE s.master
             pos2 == Dbl(pos1.v + incr * One)
         IN  [pos |-> ToTimeBase(pos2), rel |-> incr * AV_TIME_BASE,
              seek_by_bytes |-> 0]

\* do_seek of event_loop: the arguments it passes to stream_seek
do_seek(s, incr) ==
    IF s.seek_by_bytes # 0
    THEN LET pos1 == IF s.last_pos_v >= 0 THEN s.last_pos_v
                     ELSE IF s.last_pos_a >= 0 THEN s.last_pos_a
                     ELSE s.tell
             incr1 == IF s.bit_rate # 0 THEN incr * (s.bit_rate \div 8)
                      ELSE incr * 180000
         IN  [pos |-> pos1 + incr1, rel |-> incr1, seek_by_bytes |-> 1]
    ELSE LET pos1 == IF isnan(s.master) THEN ToSeconds(s.seek_pos) ELSE s.master
             pos2 == Dbl(pos1.v + incr * One)
             pos3 == IF /\ s.start_time # AV_NOPTS_VALUE
                        /\ pos2.v < ToSeconds(s.start_time).v
                     THEN ToSeconds(s.start_time) ELSE pos2
         IN  [pos |-> ToTimeBase(pos3), rel |-> incr * AV_TIME_BASE,
              seek_by_bytes |-> 0]

\* stream_seek: a request is taken only when none is pending
stream_seek(s, pos, rel, seek_by_bytes) ==
    IF s.seek_req = 0
    THEN [s EXCEPT !.seek_pos = pos, !.seek_rel = rel,
                   !.seek_flags = IF seek_by_bytes # 0 THEN AVSEEK_FLAG_BYTE
                                  ELSE 0,
                   !.seek_req = 1]
    ELSE s

othersSeek ==
    <<varsPQ, varsFQ, varsPipe, now, varsClock, varsSpeed, varsAbort, varsRead>>

InitSeek ==
    /\ QueuesParked
    /\ ClockParked
    /\ abort_request = 0
    /\ th_q = [s \in StreamSet |-> packet_queue_init]
    /\ th_f = [s \in StreamSet |-> frame_queue_init(1, 0)]
    /\ th_qwait = [s \in StreamSet |-> {}]
    /\ th_fwait = [s \in StreamSet |-> {}]
    /\ th_read = "none"
    /\ th_dec = [s \in StreamSet |-> "none"]
    /\ th_close = [pc |-> "none", i |-> 0, log |-> <<>>]
    /\ th_at = {}
    /\ rd = NoRead(0)
    /\ \E m \in SeekMasters, st \in SeekStartTimes, br \in SeekBitRates,
          bb \in {0, 1}, pv, pa \in SeekLastPos :
          sk = [NoSeek EXCEPT !.master = m, !.start_time = st, !.bit_rate = br,
                              !.seek_by_bytes = bb, !.last_pos_v = pv,
                              !.last_pos_a = pa]

\* a seek key: incr, do_seek, stream_seek
SeekKey(incr) ==
    /\ sk.keys < MaxKeys
    /\ LET a == do_seek(sk, incr) IN
          sk' = [stream_seek(sk, a.pos, a.rel, a.seek_by_bytes)
                    EXCEPT !.incr = IF sk.seek_req = 0 THEN incr ELSE @,
                           !.from = IF sk.seek_req = 0 THEN sk.master ELSE @,
                           !.keys = @ + 1]
    /\ UNCHANGED othersSeek

\* read_thread_loop_handle_seek takes the request; playback goes on from
\* somewhere
SeekHandled ==
    /\ sk.seek_req = 1
    /\ \E m \in SeekMasters, pv, pa \in SeekLastPos :
          sk' = [sk EXCEPT !.seek_req = 0, !.master = m, !.last_pos_v = pv,
                           !.last_pos_a = pa]
    /\ UNCHANGED othersSeek

NextSeek == SeekHandled \/ \E incr \in SeekKeys : SeekKey(incr)

SpecSeek == InitSeek /\ [][NextSeek]_vars

GetStream == Streams[1]

othersGet ==
    <<varsPQ, varsFQ, varsPipe, now, varsClock, varsSpeed, abort_request, th_f,
      th_fwait, th_read, th_close, varsRead, varsSeek>>

InitGet ==
    /\ QueuesParked
    /\ ClockParked
    /\ ReadParked
    /\ abort_request = 0
    /\ th_q = [s \in StreamSet |-> packet_queue_init]
    /\ th_f = [s \in StreamSet |-> frame_queue_init(1, 0)]
    /\ th_qwait = [s \in StreamSet |-> {}]
    /\ th_fwait = [s \in StreamSet |-> {}]
    /\ th_read = "none"
    /\ th_dec = [s \in StreamSet |-> IF s = GetStream THEN "call" ELSE "none"]
    /\ th_close = [pc |-> "none", i |-> 0, log |-> <<>>]
    /\ th_at = {}

\* packet_queue_get with block = 1, the loop under q->mutex: it returns or
\* goes into SDL_CondWait
GetCall ==
    /\ th_dec[GetStream] = "call"
    /\ LET r == packet_queue_get(th_q[GetStream]) IN
       /\ th_q' = [th_q EXCEPT ![GetStream] = r.q]
       /\ th_dec' = [th_dec EXCEPT ![GetStream] =
                        IF r.ret < 0 THEN "ret_abort"
                        ELSE IF r.ret = 0 THEN "get_wait" ELSE "ret_pkt"]
       /\ th_qwait' = [th_qwait EXCEPT ![GetStream] =
                          IF r.ret = 0 THEN @ \cup {"decoder"} ELSE @]
    /\ UNCHANGED <<othersGet, th_at>>

\* SDL_CondWait(q->cond) returns after a signal: the loop runs again
GetWake ==
    /\ th_dec[GetStream] = "get_wait"
    /\ "decoder" \notin th_qwait[GetStream]
    /\ th_dec' = [th_dec EXCEPT ![GetStream] = "call"]
    /\ UNCHANGED <<othersGet, th_q, th_qwait, th_at>>

\* the caller has its answer and calls again later
GetReturn ==
    /\ th_dec[GetStream] \in {"ret_pkt", "ret_abort"}
    /\ th_dec' = [th_dec EXCEPT ![GetStream] = "call"]
    /\ th_at' = {}
    /\ UNCHANGED <<othersGet, th_q, th_qwait>>

Getter == GetCall \/ GetWake \/ GetReturn

\* packet_queue_put of a demuxed packet; an accepted put signals q->cond
GetPut ==
    /\ Len(th_q[GetStream].pkts) < MaxQueue
    /\ \E sz \in PktSizes :
          LET r == packet_queue_put(th_q[GetStream], DataPkt(sz, 0)) IN
          /\ th_q' = [th_q EXCEPT ![GetStream] = r.q]
          /\ \E w \in SDL_CondSignal(th_qwait[GetStream]) :
                th_qwait' = [th_qwait EXCEPT ![GetStream] =
                                IF r.ret = 0 THEN w ELSE @]
    /\ UNCHANGED <<othersGet, th_dec, th_at>>

\* packet_queue_abort, with its signal on q->cond
GetAbort ==
    /\ th_q' = [th_q EXCEPT ![GetStream] = packet_queue_abort(@)]
    /\ \E w \in SDL_CondSignal(th_qwait[GetStream]) :
          th_qwait' = [th_qwait EXCEPT ![GetStream] = w]
    /\ th_at' = IF th_dec[GetStream] = "get_wait"
                   /\ th_q[GetStream].abort_request = 0
                THEN {"get_wait"} ELSE th_at
    /\ UNCHANGED <<othersGet, th_dec>>

\* packet_queue_flush
GetFlush ==
    /\ th_q' = [th_q EXCEPT ![GetStream] = packet_queue_flush(@)]
    /\ UNCHANGED <<othersGet, th_dec, th_qwait, th_at>>

\* packet_queue_start; the put of the flush sentinel signals q->cond
GetStart ==
    /\ Len(th_q[GetStream].pkts) < MaxQueue
    /\ th_q[GetStream].serial < MaxSerial
    /\ th_q' = [th_q EXCEPT ![GetStream] = packet_queue_start(@)]
    /\ \E w \in SDL_CondSignal(th_qwait[GetStream]) :
          th_qwait' = [th_qwait EXCEPT ![GetStream] = w]
    /\ th_at' = {}
    /\ UNCHANGED <<othersGet, th_dec>>

NextGet == Getter \/ GetPut \/ GetAbort \/ GetFlush \/ GetStart

\* the getter runs when it can; the other threads are not relied on
SpecGet == InitGet /\ [][NextGet]_vars /\ WF_vars(Getter)

(***************************************************************************)
(* Claims about the blocking get (SpecGet)                                 *)
(***************************************************************************)
\* C16: while the queue is aborted (until the next start), every pass of
\* packet_queue_get returns 'aborted' and takes nothing from the queue,
\* even with packets queued; and a getter waiting on the empty queue when
\* it is aborted returns 'aborted', unless the queue is started first
C16_AbortedGet ==
    /\ [][(th_q[GetStream].abort_request = 1 /\ th_dec[GetStream] = "call"
                                            /\ th_dec'[GetStream] # "call")
             => (th_dec'[GetStream] = "ret_abort" /\ th_q' = th_q)]_vars
    /\ ((th_dec[GetStream] = "get_wait" /\ th_q[GetStream].abort_request = 1)
           ~> (th_dec[GetStream] = "ret_abort"
                  \/ th_q[GetStream].abort_request = 0))

\* C16 witness: the getter was waiting on the empty queue when the queue
\* was aborted, and has returned 'aborted'
C16_Witness ==
    /\ th_dec[GetStream] = "ret_abort"
    /\ th_at = {"get_wait"}
    /\ th_q[GetStream].abort_request = 1

(***************************************************************************)
(* SpecStart: one PacketQueue through the life of its decoders.  The       *)
(* thread that opens and closes the stream (th_close) runs decoder_start   *)
(* and decoder_abort; the decoder thread (th_dec) gets packets; the reader *)
(* (th_read) puts packets and, for a seek, flushes and puts the flush      *)
(* sentinel.  is->audio_stream is set before decoder_start and reset after *)
(* decoder_abort, so the reader acts on the queue at any time.  th_close.i *)
(* remembers the serial the last start set, th_at whether the decoder      *)
(* thread has had its first packet.                                        *)
(***************************************************************************)
othersStart ==
    <<varsPQ, varsFQ, varsPipe, now, varsClock, varsSpeed, abort_request, th_f,
      th_fwait, varsRead, varsSeek>>

InitStart ==
    /\ QueuesParked
    /\ ClockParked
    /\ ReadParked
    /\ abort_request = 0
    /\ th_q = [s \in StreamSet |-> packet_queue_init]
    /\ th_f = [s \in StreamSet |-> frame_queue_init(1, 0)]
    /\ th_qwait = [s \in StreamSet |-> {}]
    /\ th_fwait = [s \in StreamSet |-> {}]
    /\ th_read = "read"
    /\ th_dec = [s \in StreamSet |-> "none"]
    /\ th_close = [pc |-> "closed", i |-> 0, log |-> <<>>]
    /\ th_at = {}

\* decoder_start: packet_queue_start, then the decoder thread is created
StartOpen ==
    /\ th_close.pc = "closed"
    /\ th_q[GetStream].serial < MaxSerial
    /\ th_q' = [th_q EXCEPT ![GetStream] = packet_queue_start(@)]
    /\ \E w \in SDL_CondSignal(th_qwait[GetStream]) :
          th_qwait' = [th_qwait EXCEPT ![GetStream] = w]
    /\ th_dec' = [th_dec EXCEPT ![GetStream] = "call"]
    /\ th_close' = [th_close EXCEPT !.pc = "open",
                                    !.i = th_q[GetStream].serial + 1]
    /\ th_at' = {"fresh"}
    /\ UNCHANGED <<othersStart, th_read>>

\* decoder_abort: packet_queue_abort, with its signal on q->cond
StartAbort ==
    /\ th_close.pc = "open"
    /\ th_q' = [th_q EXCEPT ![GetStream] = packet_queue_abort(@)]
    /\ \E w \in SDL_CondSignal(th_qwait[GetStream]) :
          th_qwait' = [th_qwait EXCEPT ![GetStream] = w]
    /\ th_close' = [th_close EXCEPT !.pc = "join"]
    /\ UNCHANGED <<othersStart, th_read, th_dec, th_at>>

\* decoder_abort: SDL_WaitThread returns, then packet_queue_flush
StartJoin ==
    /\ th_close.pc = "join"
    /\ th_dec[GetStream] = "exit"
    /\ th_q' = [th_q EXCEPT ![GetStream] = packet_queue_flush(@)]
    /\ th_dec' = [th_dec EXCEPT ![GetStream] = "none"]
    /\ th_close' = [th_close EXCEPT !.pc = "closed"]
    /\ UNCHANGED <<othersStart, th_read, th_qwait, th_at>>

\* the decoder thread's packet_queue_get with block = 1
StartGet ==
    /\ th_dec[GetStream] = "call"
    /\ LET r == packet_queue_get(th_q[GetStream]) IN
       /\ th_q' = [th_q EXCEPT ![GetStream] = r.q]
       /\ th_dec' = [th_dec EXCEPT ![GetStream] =
                        IF r.ret < 0 THEN "exit"
                        ELSE IF r.ret = 0 THEN "get_wait" ELSE "call"]
       /\ th_qwait' = [th_qwait EXCEPT ![GetStream] =
                          IF r.ret = 0 THEN @ \cup {"decoder"} ELSE @]
       /\ th_at' = IF r.ret = 1
                   THEN (IF th_at = {"fresh"} THEN {"first"} ELSE {})
                   ELSE th_at
    /\ UNCHANGED <<othersStart, th_read, th_close>>

\* SDL_CondWait(q->cond) returns after a signal
StartWake ==
    /\ th_dec[GetStream] = "get_wait"
    /\ "decoder" \notin th_qwait[GetStream]
    /\ th_dec' = [th_dec EXCEPT ![GetStream] = "call"]
    /\ UNCHANGED <<othersStart, th_q, th_qwait, th_read, th_close, th_at>>

\* the reader puts a demuxed packet or a null packet
StartPut ==
    /\ th_read = "read"
    /\ Len(th_q[GetStream].pkts) < MaxQueue
    /\ \E pkt \in {DataPkt(sz, 0) : sz \in PktSizes}
                     \cup {NullPkt(d) : d \in PktDurations} :
          LET r == packet_queue_put(th_q[GetStream], pkt) IN
          /\ th_q' = [th_q EXCEPT ![GetStream] = r.q]
          /\ \E w \in SDL_CondSignal(th_qwait[GetStream]) :
                th_qwait' = [th_qwait EXCEPT ![GetStream] =
                                IF r.ret = 0 THEN w ELSE @]
    /\ UNCHANGED <<othersStart, th_read, th_dec, th_close, th_at>>

\* read_thread_loop_handle_seek: packet_queue_flush
StartSeekFlush ==
    /\ th_read = "read"
    /\ th_q[GetStream].serial < MaxSerial
    /\ th_q' = [th_q EXCEPT ![GetStream] = packet_queue_flush(@)]
    /\ th_read' = "seek_put"
    /\ UNCHANGED <<othersStart, th_qwait, th_dec, th_close, th_at>>

\* read_thread_loop_handle_seek: packet_queue_put of the flush sentinel
StartSeekPut ==
    /\ th_read = "seek_put"
    /\ LET r == packet_queue_put(th_q[GetStream], flush_pkt) IN
       /\ th_q' = [th_q EXCEPT ![GetStream] = r.q]
       /\ \E w \in SDL_CondSignal(th_qwait[GetStream]) :
             th_qwait' = [th_qwait EXCEPT ![GetStream] =
                             IF r.ret = 0 THEN w ELSE @]
    /\ th_read' = "read"
    /\ UNCHANGED <<othersStart, th_dec, th_close, th_at>>

NextStart ==
    \/ StartOpen \/ StartAbort \/ StartJoin \/ StartGet \/ StartWake
    \/ StartPut \/ StartSeekFlush \/ StartSeekPut

SpecStart == InitStart /\ [][NextStart]_vars

SyncTypes == {AV_SYNC_AUDIO_MASTER, AV_SYNC_VIDEO_MASTER, AV_SYNC_EXTERNAL_CLOCK}

NoAsk == [asked |-> FALSE, calls |-> 0, av_sync_type |-> AV_SYNC_AUDIO_MASTER,
          video_st |-> 0, audio_st |-> 0, master |-> AV_SYNC_AUDIO_MASTER]

othersSync ==
    <<varsPQ, varsFQ, varsPipe, now, varsSpeed, varsAbort, varsRead, varsSeek>>

InitSync ==
    /\ QueuesParked
    /\ SpeedParked
    /\ AbortParked
    /\ now = 0
    /\ \E sync \in SyncTypes : is = VideoState(sync, 0, 0, 0, 0)
    /\ clk_h = NoAsk

\* stream_component_open: is->video_st or is->audio_st is set
SyncOpen ==
    /\ \/ is.video_st = 0 /\ is' = [is EXCEPT !.video_st = 1]
       \/ is.audio_st = 0 /\ is' = [is EXCEPT !.audio_st = 1]
    /\ UNCHANGED <<othersSync, clk_h>>

\* stream_component_close: is->video_st or is->audio_st is reset
SyncClose ==
    /\ \/ is.video_st = 1 /\ is' = [is EXCEPT !.video_st = 0]
       \/ is.audio_st = 1 /\ is' = [is EXCEPT !.audio_st = 0]
    /\ UNCHANGED <<othersSync, clk_h>>

\* a call of get_master_sync_type
SyncAsk ==
    /\ clk_h.calls < MaxEvents
    /\ clk_h' = [asked |-> TRUE, calls |-> clk_h.calls + 1,
                 av_sync_type |-> is.av_sync_type,
                 video_st |-> is.video_st, audio_st |-> is.audio_st,
                 master |-> get_master_sync_type(is)]
    /\ UNCHANGED <<othersSync, is>>

NextSync == SyncOpen \/ SyncClose \/ SyncAsk

SpecSync == InitSync /\ [][NextSync]_vars

(***************************************************************************)
(* Claims about the master clock's choice (SpecSync)                       *)
(***************************************************************************)
\* C20 as stated: the master is AUDIO if AUDIO is configured and there is
\* an audio stream, else VIDEO if VIDEO is configured and there is a video
\* stream, else EXTERNAL
C20_Original ==
    clk_h.asked =>
        clk_h.master =
            IF clk_h.av_sync_type = AV_SYNC_AUDIO_MASTER /\ clk_h.audio_st = 1
            THEN AV_SYNC_AUDIO_MASTER
            ELSE IF clk_h.av_sync_type = AV_SYNC_VIDEO_MASTER /\ clk_h.video_st = 1
            THEN AV_SYNC_VIDEO_MASTER
            ELSE AV_SYNC_EXTERNAL_CLOCK

\* C20 amended: as stated, except that with VIDEO configured and no video
\* stream the master is AUDIO, whether or not there is an audio stream
C20_MasterSelection ==
    clk_h.asked =>
        clk_h.master =
            IF clk_h.av_sync_type = AV_SYNC_AUDIO_MASTER /\ clk_h.audio_st = 1
            THEN AV_SYNC_AUDIO_MASTER
            ELSE IF clk_h.av_sync_type = AV_SYNC_VIDEO_MASTER /\ clk_h.video_st = 1
            THEN AV_SYNC_VIDEO_MASTER
            ELSE IF clk_h.av_sync_type = AV_SYNC_VIDEO_MASTER
            THEN AV_SYNC_AUDIO_MASTER
            ELSE AV_SYNC_EXTERNAL_CLOCK

\* C20 witness: asked with VIDEO configured and neither stream there, the
\* answer was AUDIO
C20_Witness ==
    /\ clk_h.asked
    /\ clk_h.av_sync_type = AV_SYNC_VIDEO_MASTER
    /\ clk_h.video_st = 0
    /\ clk_h.audio_st = 0
    /\ clk_h.master = AV_SYNC_AUDIO_MASTER

(***************************************************************************)
(* SpecSlave: the external clock synchronised to the video clock.  The     *)
(* clocks are set (a frame shown, a seek), the video queue is flushed,     *)
(* time passes, and update_video_pts's sync_clock_to_slave runs.  clk_h    *)
(* remembers the last call: the two readings, the slave's serial, and the  *)
(* clock before and after.                                                 *)
(***************************************************************************)
\* the pts the clocks are set to: none, and two values 10 s apart (a second
\* passing on one clock only makes them 11 s apart)
SlavePts == {NAN, Dbl(0), Dbl(AV_NOSYNC_THRESHOLD * One)}

NoSync == [called |-> FALSE, clock |-> NAN, slave_clock |-> NAN,
           slave_serial |-> -1, before |-> init_clock("self", 0),
           after |-> init_clock("self", 0)]

othersSlave ==
    <<varsPQ, varsFQ, varsPipe, varsSpeed, varsAbort, varsRead, varsSeek>>

InitSlave ==
    /\ QueuesParked
    /\ SpeedParked
    /\ AbortParked
    /\ now = 0
    /\ is = VideoState(AV_SYNC_EXTERNAL_CLOCK, 1, 0, 0, 0)
    /\ clk_h = NoSync

\* set_clock on the external clock (a seek)
SlaveSetClock ==
    /\ \E pts \in SlavePts : is' = [is EXCEPT !.extclk = set_clock(@, pts, 0, now)]
    /\ UNCHANGED <<othersSlave, now, clk_h>>

\* the video queue takes a flush sentinel
SlaveFlush ==
    /\ is.videoq_serial < MaxSerial
    /\ is' = [is EXCEPT !.videoq_serial = @ + 1]
    /\ UNCHANGED <<othersSlave, now, clk_h>>

\* a second passes
SlaveTick ==
    /\ now < MaxTime
    /\ now' = now + 1
    /\ UNCHANGED <<othersSlave, is, clk_h>>

\* update_video_pts for a frame of the current or of an earlier serial: the
\* video clock is set, then the external clock is synchronised to it
SlaveSync ==
    /\ \E pts \in SlavePts, serial \in 1 .. is.videoq_serial :
          LET slave == set_clock(is.vidclk, pts, serial, now)
          IN  /\ is' = update_video_pts(is, pts, serial, now)
              /\ clk_h' = [called |-> TRUE,
                           clock |-> get_clock(is.extclk, is.extclk.serial, now),
                           slave_clock |-> get_clock(slave, is.videoq_serial, now),
                           slave_serial |-> serial,
                           before |-> is.extclk,
                           after |-> is'.extclk]
    /\ UNCHANGED <<othersSlave, now>>

NextSlave == SlaveSetClock \/ SlaveFlush \/ SlaveTick \/ SlaveSync

SpecSlave == InitSlave /\ [][NextSlave]_vars

(***************************************************************************)
(* Claims about sync_clock_to_slave (SpecSlave)                            *)
(***************************************************************************)
\* the clock took the slave's reading and serial
SlaveCopied ==
    /\ clk_h.after.pts = clk_h.slave_clock
    /\ clk_h.after.serial = clk_h.slave_serial

\* C21 as stated: the slave's reading and serial are copied if and only if
\* the slave's reading is not NaN and the two readings are more than 10 s
\* apart; otherwise the clock is left as it was
C21_Original ==
    clk_h.called =>
        IF /\ ~isnan(clk_h.slave_clock)
           /\ ~isnan(clk_h.clock)
           /\ fabs(clk_h.clock.v - clk_h.slave_clock.v) > AV_NOSYNC_THRESHOLD * One
        THEN SlaveCopied
        ELSE clk_h.after = clk_h.before

\* C21 amended: the copy is made if and only if the slave's reading is not
\* NaN and this clock's reading is NaN or more than 10 s away from it
C21_SyncToSlave ==
    clk_h.called =>
        IF /\ ~isnan(clk_h.slave_clock)
           /\ \/ isnan(clk_h.clock)
              \/ fabs(clk_h.clock.v - clk_h.slave_clock.v)
                    > AV_NOSYNC_THRESHOLD * One
        THEN SlaveCopied
        ELSE clk_h.after = clk_h.before

\* C21 witness: the readings were 11 s apart and the copy was made
C21_Witness ==
    /\ clk_h.called
    /\ ~isnan(clk_h.clock) /\ ~isnan(clk_h.slave_clock)
    /\ fabs(clk_h.clock.v - clk_h.slave_clock.v) = (AV_NOSYNC_THRESHOLD + 1) * One
    /\ SlaveCopied
    /\ clk_h.after # clk_h.before

(***************************************************************************)
(* SpecMain: the process from main to its exit.  main tests its arguments, *)
(* installs the signal handler, prepares SDL and opens the stream, which   *)
(* starts the reader thread; the reader opens the input and the streams    *)
(* and runs its loop; the event loop answers a quit event or the user's    *)
(* quit with do_exit, which joins the reader in stream_close.  rd holds    *)
(* the two threads: where main stands, the exit code and what led to it,   *)
(* where the reader stands, its ret (once set), the streams it opened, the *)
(* fatal initialization error it met, and the FF_QUIT_EVENTs pushed and    *)
(* pending.                                                                *)
(***************************************************************************)
othersMain == <<varsPQ, varsFQ, varsPipe, now, varsClock, varsSpeed, varsAbort,
                varsSeek>>

\* an int local that was never assigned
Indeterminate == {0, -1}

NoProcess ==
    [main |-> "start", handler |-> 0, code |-> 0, cause |-> "none",
     thread |-> "none", ret_set |-> 0, ret |-> 0, audio_stream |-> -1,
     video_stream |-> -1, fatal |-> "none", abort_request |-> 0,
     pushed |-> 0, pending |-> 0]

InitMain ==
    /\ QueuesParked
    /\ ClockParked
    /\ abort_request = 0
    /\ th_q = [s \in StreamSet |-> packet_queue_init]
    /\ th_f = [s \in StreamSet |-> frame_queue_init(1, 0)]
    /\ th_qwait = [s \in StreamSet |-> {}]
    /\ th_fwait = [s \in StreamSet |-> {}]
    /\ th_read = "none"
    /\ th_dec = [s \in StreamSet |-> "none"]
    /\ th_close = [pc |-> "none", i |-> 0, log |-> <<>>]
    /\ th_at = {}
    /\ sk = NoSeek
    /\ rd = NoProcess

\* exit(code), or the return of main
Exit(p, code, cause) ==
    [p EXCEPT !.main = "exited", !.code = code, !.cause = cause]

\* do_exit(NULL): nothing to close, exit(0)
do_exit_null(p, cause) == Exit(p, 0, cause)

\* main up to prepare_sdl: the argument test and the signal handlers
MainStart ==
    /\ rd.main = "start"
    /\ \E argc \in {1, 2} :
          rd' = IF argc < 2 THEN Exit(rd, -1, "no argument")
                ELSE [rd EXCEPT !.main = "sdl", !.handler = 1]
    /\ UNCHANGED othersMain

\* prepare_sdl: SDL_Init, then the window and the renderer
PrepareSdl ==
    /\ rd.main = "sdl"
    /\ \E sdl_init \in {0, -1}, window \in BOOLEAN, renderer \in BOOLEAN,
          num_texture_formats \in {0, 1} :
          rd' = IF sdl_init # 0 THEN Exit(rd, 1, "SDL_Init")
                ELSE IF ~window \/ ~renderer \/ num_texture_formats = 0
                THEN do_exit_null(rd, "window or renderer")
                ELSE [rd EXCEPT !.main = "open"]
    /\ UNCHANGED othersMain

\* stream_open and its test in main: NULL when an allocation, a queue or the
\* reader thread could not be made
StreamOpen ==
    /\ rd.main = "open"
    /\ \E is_ok \in BOOLEAN :
          rd' = IF ~is_ok THEN do_exit_null(rd, "VideoState")
                ELSE [rd EXCEPT !.main = "loop", !.thread = "open_input"]
    /\ UNCHANGED othersMain

\* sigterm_handler, once main has installed it
SigtermHandler ==
    /\ rd.handler = 1
    /\ rd.main # "exited"
    /\ rd' = Exit(rd, 123, "signal")
    /\ UNCHANGED othersMain

\* read_thread: open_input_file (the context, avformat_open_input,
\* avformat_find_stream_info); a failure jumps to fail over the
\* initialization of ret
ReadThreadOpen ==
    /\ rd.main # "exited"
    /\ rd.thread = "open_input"
    /\ \E outcome \in {"ok", "no context", "open", "stream info"} :
          rd' = IF outcome = "ok" THEN [rd EXCEPT !.thread = "streams"]
                ELSE [rd EXCEPT !.thread = "fail",
                                !.fatal = IF outcome = "no context" THEN "none"
                                          ELSE outcome]
    /\ UNCHANGED othersMain

\* stream_component_open of the stream st (-1: none found): "ok", "codec"
\* (it fails before the stream is set) or "start" (decoder_start fails, the
\* video stream is set already, the audio stream too)
stream_component_open(st, outcome) ==
    IF st < 0 \/ outcome = "codec" THEN [stream |-> -1, ret |-> -1]
    ELSE [stream |-> st, ret |-> IF outcome = "ok" THEN 0 ELSE -1]

\* open_the_streams: the result is that of the video stream, -1 when there
\* is none or when neither stream is open
open_the_streams(st_audio, audio, st_video, video) ==
    LET a == stream_component_open(st_audio, audio)
        v == stream_component_open(st_video, video)
        ret == IF st_video >= 0 THEN v.ret ELSE -1
    IN  [audio_stream |-> a.stream, video_stream |-> v.stream,
         ret |-> IF v.stream < 0 /\ a.stream < 0 THEN -1 ELSE ret]

\* read_thread: find_best_streams and open_the_streams; a result other than
\* 0 jumps to fail over the initialization of ret
ReadThreadStreams ==
    /\ rd.main # "exited"
    /\ rd.thread = "streams"
    /\ \E st_audio \in {-1, 0}, st_video \in {-1, 1},
          audio \in {"ok", "codec", "start"}, video \in {"ok", "codec", "start"} :
          LET r == open_the_streams(st_audio, audio, st_video, video) IN
          rd' = [rd EXCEPT !.audio_stream = r.audio_stream,
                           !.video_stream = r.video_stream,
                           !.thread = IF r.ret # 0 THEN "fail" ELSE "loop",
                           !.fatal = IF r.video_stream < 0 /\ r.audio_stream < 0
                                     THEN "no stream" ELSE "none"]
    /\ UNCHANGED othersMain

\* read_thread: int ret = read_thread_loop(ic, is), which ends with 0 on
\* abort_request or an I/O error and below 0 on a failed handler or on
\* AVERROR_EOF with autoexit
ReadThreadLoop ==
    /\ rd.main # "exited"
    /\ rd.thread = "loop"
    /\ \E ret \in (IF rd.abort_request = 1 THEN {0} ELSE {0, -1}) :
          rd' = [rd EXCEPT !.thread = "fail", !.ret_set = 1, !.ret = ret]
    /\ UNCHANGED othersMain

\* read_thread at fail: the FF_QUIT_EVENT is pushed when ret != 0
ReadThreadFail ==
    /\ rd.main # "exited"
    /\ rd.thread = "fail"
    /\ \E ret \in (IF rd.ret_set = 0 THEN Indeterminate ELSE {rd.ret}) :
          rd' = [rd EXCEPT !.thread = "returned",
                           !.pushed = IF ret # 0 THEN @ + 1 ELSE @,
                           !.pending = IF ret # 0 THEN @ + 1 ELSE @]
    /\ UNCHANGED othersMain

\* event_loop: FF_QUIT_EVENT, or SDL_QUIT and the q and ESC keys of the user:
\* do_exit(cur_stream) begins, stream_close sets abort_request
EventQuit ==
    /\ rd.main = "loop"
    /\ \/ /\ rd.pending > 0
          /\ rd' = [rd EXCEPT !.main = "closing", !.pending = @ - 1,
                              !.cause = "quit event", !.abort_request = 1]
       \/ rd' = [rd EXCEPT !.main = "closing", !.cause = "user",
                           !.abort_request = 1]
    /\ UNCHANGED othersMain

\* do_exit: stream_close has joined the reader, exit(0)
DoExit ==
    /\ rd.main = "closing"
    /\ rd.thread = "returned"
    /\ rd' = Exit(rd, 0, rd.cause)
    /\ UNCHANGED othersMain

NextMain ==
    \/ MainStart \/ PrepareSdl \/ StreamOpen \/ SigtermHandler
    \/ ReadThreadOpen \/ ReadThreadStreams \/ ReadThreadLoop \/ ReadThreadFail
    \/ EventQuit \/ DoExit

SpecMain == InitMain /\ [][NextMain]_vars

(***************************************************************************)
(* Claims about initialization failures and exit codes (SpecMain)          *)
(***************************************************************************)
\* C23: a reader thread that met a fatal initialization error (the input
\* cannot be opened, no stream info, neither an audio nor a video stream
\* opened) has pushed a FF_QUIT_EVENT by the time it returns
C23_FatalInitEmitsQuit ==
    (rd.thread = "returned" /\ rd.fatal # "none") => rd.pushed > 0

\* C24: the exit code is -1 without an input argument, 123 on a signal, 1 on
\* a failure of SDL_Init, of the window or renderer, or of stream_open, and 0
\* otherwise
C24_ExitCodes ==
    rd.main = "exited" =>
        rd.code = CASE rd.cause = "no argument" -> -1
                    [] rd.cause = "signal" -> 123
                    [] rd.cause \in {"SDL_Init", "window or renderer",
                                     "VideoState"} -> 1
                    [] OTHER -> 0

(***************************************************************************)
(* SpecHSeek: read_thread_loop_handle_seek as a whole, on the packet       *)
(* queues of the two streams (th_q), the VideoState's pause state and      *)
(* clocks (is) and the reader's flags (rd), with a user who seeks and      *)
(* pauses and a stream switch on the event loop's thread taken step by     *)
(* step, so that the reader meets a stream that is set but whose queue is  *)
(* aborted.  clk_h keeps the state before and after the last call.         *)
(***************************************************************************)
othersHSeek ==
    <<varsPQ, varsFQ, varsPipe, now, varsSpeed, abort_request, th_f, th_qwait,
      th_fwait, th_read, th_dec, th_close, th_at, varsSeek>>

\* the positions the user seeks to, in AV_TIME_BASE units or in bytes
HSeekPositions == {0, 3 * AV_TIME_BASE}

\* is->audio_stream and is->video_stream, from where stream_component_open
\* and stream_component_close stand on the stream: "closed" (index -1),
\* "set" (index set, the queue not started yet), "open", "aborted"
\* (decoder_abort done, the index not yet cleared)
StreamIndex(r, s) ==
    IF r.phase[s] = "closed" THEN -1 ELSE IF s = "audio" THEN 0 ELSE 1

\* the serials of the queues as the clocks see them
WithSerials(vs, qs) ==
    [vs EXCEPT !.videoq_serial = qs["video"].serial,
               !.audioq_serial = qs["audio"].serial]

NoHSeek(phase) ==
    [seek_req |-> 0, seek_pos |-> 0, seek_rel |-> 0, seek_flags |-> 0,
     queue_attachments_req |-> 0, eof |-> 0, phase |-> phase, events |-> 0]

NoCall == [called |-> FALSE, ret |-> 0]

InitHSeek ==
    /\ QueuesParked
    /\ SpeedParked
    /\ now = 0
    /\ abort_request = 0
    /\ th_f = [s \in StreamSet |-> frame_queue_init(1, 0)]
    /\ th_qwait = [s \in StreamSet |-> {}]
    /\ th_fwait = [s \in StreamSet |-> {}]
    /\ th_read = "none"
    /\ th_dec = [s \in StreamSet |-> "none"]
    /\ th_close = [pc |-> "none", i |-> 0, log |-> <<>>]
    /\ th_at = {}
    /\ sk = NoSeek
    /\ \E phase \in [StreamSet -> {"open", "closed"}] :
          /\ rd = NoHSeek(phase)
          /\ th_q = [s \in StreamSet |->
                       IF phase[s] = "open" THEN packet_queue_start(packet_queue_init)
                       ELSE packet_queue_init]
          /\ is = WithSerials(VideoState(AV_SYNC_EXTERNAL_CLOCK, 1, 1, 0, 0), th_q)
    /\ clk_h = NoCall

\* mutant: a failed seek leaves the eof flag as it is
read_thread_loop_handle_seek_KeepEof(st, ret, time) ==
    IF st.r.seek_req = 0 THEN st
    ELSE
    LET qs1 == IF ret < 0 THEN st.qs
               ELSE [s \in StreamSet |->
                       IF StreamIndex(st.r, s) >= 0 THEN handle_seek(st.qs[s])
                       ELSE st.qs[s]]
        target == IF (st.r.seek_flags \div AVSEEK_FLAG_BYTE) % 2 = 1 THEN NAN
                  ELSE ToSeconds(st.r.seek_pos)
        vs1 == IF ret < 0 THEN st.vs
               ELSE [WithSerials(st.vs, qs1) EXCEPT
                        !.extclk = set_clock(@, target, 0, time)]
        r1 == [st.r EXCEPT !.seek_req = 0, !.queue_attachments_req = 1,
                           !.eof = IF ret < 0 THEN @ ELSE 0]
    IN  [qs |-> qs1,
         vs |-> IF vs1.paused = 1 THEN step_to_next_frame(vs1, time) ELSE vs1,
         r |-> r1]

\* mutant: a seek that succeeded flushes the queues and puts no sentinel
read_thread_loop_handle_seek_NoSentinel(st, ret, time) ==
    IF st.r.seek_req = 0 THEN st
    ELSE
    LET qs1 == IF ret < 0 THEN st.qs
               ELSE [s \in StreamSet |->
                       IF StreamIndex(st.r, s) >= 0 THEN packet_queue_flush(st.qs[s])
                       ELSE st.qs[s]]
        target == IF (st.r.seek_flags \div AVSEEK_FLAG_BYTE) % 2 = 1 THEN NAN
                  ELSE ToSeconds(st.r.seek_pos)
        vs1 == IF ret < 0 THEN st.vs
               ELSE [WithSerials(st.vs, qs1) EXCEPT
                        !.extclk = set_clock(@, target, 0, time)]
        r1 == [st.r EXCEPT !.seek_req = 0, !.queue_attachments_req = 1,
                           !.eof = 0]
    IN  [qs |-> qs1,
         vs |-> IF vs1.paused = 1 THEN step_to_next_frame(vs1, time) ELSE vs1,
         r |-> r1]

\* read_thread_loop_handle_seek; ret is what avformat_seek_file returned
read_thread_loop_handle_seek(st, ret, time) ==
    IF st.r.seek_req = 0 THEN st
    ELSE
    LET qs1 == IF ret < 0 THEN st.qs
               ELSE [s \in StreamSet |->
                       IF StreamIndex(st.r, s) >= 0 THEN handle_seek(st.qs[s])
                       ELSE st.qs[s]]
        target == IF (st.r.seek_flags \div AVSEEK_FLAG_BYTE) % 2 = 1 THEN NAN
                  ELSE ToSeconds(st.r.seek_pos)
        vs1 == IF ret < 0 THEN st.vs
               ELSE [WithSerials(st.vs, qs1) EXCEPT
                        !.extclk = set_clock(@, target, 0, time)]
        r1 == [st.r EXCEPT !.seek_req = 0, !.queue_attachments_req = 1,
                           !.eof = 0]
    IN  [qs |-> qs1,
         vs |-> IF vs1.paused = 1 THEN step_to_next_frame(vs1, time) ELSE vs1,
         r |-> r1]

\* the reader passes read_thread_loop_handle_seek
HsHandleSeek ==
    /\ rd.seek_req = 1
    /\ \E ret \in {0, -1} :
          LET before == [qs |-> th_q, vs |-> is, r |-> rd]
              after == read_thread_loop_handle_seek(before, ret, now)
          IN  /\ th_q' = after.qs
              /\ is' = after.vs
              /\ rd' = after.r
              /\ clk_h' = [called |-> TRUE, ret |-> ret,
                           before |-> before, after |-> after]
    /\ UNCHANGED othersHSeek

\* the reader passes read_thread_loop_handle_queue_attachments_req (the
\* streams have no attached picture)
HsAttach ==
    /\ rd.queue_attachments_req = 1
    /\ rd' = [rd EXCEPT !.queue_attachments_req = 0]
    /\ UNCHANGED <<othersHSeek, th_q, is, clk_h>>

\* the reader reads: a packet for the queue of an open stream, or the end
\* of the file
HsRead ==
    /\ \/ \E s \in StreamSet :
             /\ StreamIndex(rd, s) >= 0
             /\ th_q[s].nb_packets <= MaxThPackets
             /\ th_q' = [th_q EXCEPT ![s] = packet_queue_put(@, DataPkt(1, 0)).q]
             /\ rd' = [rd EXCEPT !.eof = 0]
       \/ /\ rd.eof = 0
          /\ rd' = [rd EXCEPT !.eof = 1]
          /\ th_q' = th_q
    /\ UNCHANGED <<othersHSeek, is, clk_h>>

\* a seek key: stream_seek
HsUserSeek ==
    /\ rd.events < MaxEvents
    /\ \E pos \in HSeekPositions, seek_by_bytes \in {0, 1} :
          rd' = [stream_seek(rd, pos, 0, seek_by_bytes) EXCEPT !.events = @ + 1]
    /\ UNCHANGED <<othersHSeek, th_q, is, clk_h>>

\* the pause key: toggle_pause
HsTogglePause ==
    /\ rd.events < MaxEvents
    /\ is' = [stream_toggle_pause(is, now) EXCEPT !.step = 0]
    /\ rd' = [rd EXCEPT !.events = @ + 1]
    /\ UNCHANGED <<othersHSeek, th_q, clk_h>>

\* stream_cycle_channel on the event loop's thread, one step of
\* stream_component_close or stream_component_open on the stream s:
\* decoder_abort, the index cleared, the index set, decoder_start
HsSwitch(s) ==
    /\ \/ /\ rd.phase[s] = "open"
          /\ rd.events < MaxEvents
          /\ th_q' = [th_q EXCEPT ![s] = packet_queue_flush(packet_queue_abort(@))]
          /\ rd' = [rd EXCEPT !.phase[s] = "aborted", !.events = @ + 1]
       \/ /\ rd.phase[s] = "aborted"
          /\ th_q' = th_q
          /\ rd' = [rd EXCEPT !.phase[s] = "closed"]
       \/ /\ rd.phase[s] = "closed"
          /\ rd.events < MaxEvents
          /\ th_q' = th_q
          /\ rd' = [rd EXCEPT !.phase[s] = "set", !.eof = 0, !.events = @ + 1]
       \/ /\ rd.phase[s] = "set"
          /\ th_q' = [th_q EXCEPT ![s] = packet_queue_start(@)]
          /\ rd' = [rd EXCEPT !.phase[s] = "open",
                              !.queue_attachments_req =
                                  IF s = "video" THEN 1 ELSE @]
    /\ is' = WithSerials(is, th_q')
    /\ UNCHANGED <<othersHSeek, clk_h>>

NextHSeek ==
    \/ HsHandleSeek \/ HsAttach \/ HsRead \/ HsUserSeek \/ HsTogglePause
    \/ \E s \in StreamSet : HsSwitch(s)

SpecHSeek == InitHSeek /\ [][NextHSeek]_vars

(***************************************************************************)
(* Claims about read_thread_loop_handle_seek (SpecHSeek)                   *)
(***************************************************************************)
\* the last call found a seek that failed
HSeekFailed == clk_h.called /\ clk_h.ret < 0
\* the last call found a seek that succeeded
HSeekDone == clk_h.called /\ clk_h.ret >= 0

\* C25 as stated: after a seek that failed no queue is flushed, no serial
\* and no clock has changed, and pause, step, eof and the attachment request
\* are as before; only seek_req is cleared
C25_Original ==
    HSeekFailed =>
        /\ clk_h.after.qs = clk_h.before.qs
        /\ clk_h.after.vs = clk_h.before.vs
        /\ clk_h.after.r = [clk_h.before.r EXCEPT !.seek_req = 0]

\* C25 amended: after a seek that failed no queue is flushed and no serial
\* has changed; seek_req is cleared, the attachment request is raised and
\* eof is cleared; a player that was not paused keeps its clocks, pause and
\* step state, a paused player is unpaused with step set
C25_FailedSeek ==
    HSeekFailed =>
        /\ clk_h.after.qs = clk_h.before.qs
        /\ clk_h.after.r = [clk_h.before.r EXCEPT !.seek_req = 0,
                                                  !.queue_attachments_req = 1,
                                                  !.eof = 0]
        /\ clk_h.after.vs.videoq_serial = clk_h.before.vs.videoq_serial
        /\ clk_h.after.vs.audioq_serial = clk_h.before.vs.audioq_serial
        /\ clk_h.before.vs.paused = 0 => clk_h.after.vs = clk_h.before.vs
        /\ clk_h.before.vs.paused = 1 =>
              /\ clk_h.after.vs.paused = 0
              /\ clk_h.after.vs.step = 1
              /\ get_clock(clk_h.after.vs.extclk, clk_h.after.vs.extclk.serial, now)
                    = get_clock(clk_h.before.vs.extclk,
                                clk_h.before.vs.extclk.serial, now)

\* C25 witness: a seek failed with packets queued, at the end of the file,
\* with no attachment request pending and the player not paused
C25_Witness ==
    /\ HSeekFailed
    /\ \E s \in StreamSet : Len(clk_h.before.qs[s].pkts) > 1
    /\ clk_h.before.r.eof = 1
    /\ clk_h.before.r.queue_attachments_req = 0
    /\ clk_h.before.vs.paused = 0
    /\ clk_h.after.qs = clk_h.before.qs

\* the queue holds the flush sentinel alone, stamped with the serial n
OnlySentinel(pq, n) ==
    /\ pq.pkts = <<[pkt |-> flush_pkt, serial |-> n]>>
    /\ pq.nb_packets = 1
    /\ pq.serial = n

\* what the seek asked for: NaN for a seek by bytes, else the target time
HSeekTarget(r) ==
    IF (r.seek_flags \div AVSEEK_FLAG_BYTE) % 2 = 1 THEN NAN
    ELSE ToSeconds(r.seek_pos)

\* the external clock reads the target and seek_req is cleared
HSeekClockAndReq ==
    /\ get_clock(clk_h.after.vs.extclk, clk_h.after.vs.extclk.serial, now)
          = HSeekTarget(clk_h.before.r)
    /\ clk_h.after.r.seek_req = 0

othersLock ==
    <<varsPQh, apc, fq_waiters, fq_cycles, varsPipe, now, varsClock, varsSpeed,
      abort_request, th_q, th_f, th_qwait, th_fwait, th_dec, th_close, th_at,
      varsRead, varsSeek>>

InitLock ==
    /\ PQhParked
    /\ PipeParked
    /\ ClockParked
    /\ ReadParked
    /\ abort_request = 0
    /\ th_q = [s \in StreamSet |-> packet_queue_init]
    /\ th_f = [s \in StreamSet |-> frame_queue_init(1, 0)]
    /\ th_qwait = [s \in StreamSet |-> {}]
    /\ th_fwait = [s \in StreamSet |-> {}]
    /\ th_dec = [s \in StreamSet |-> "none"]
    /\ th_close = [pc |-> "none", i |-> 0, log |-> <<>>]
    /\ th_at = {}
    /\ apc = "run"
    /\ fq_waiters = {}
    /\ fq_cycles = 0
    /\ fq_pushed = 0
    /\ q = packet_queue_start(packet_queue_init)
    /\ \E keep_last \in {0, 1} : f = frame_queue_init(MaxThFrames, keep_last)
    /\ th_read = "idle"
    /\ ppc = "idle"
    /\ cpc = "idle"

\* SDL_LockMutex by the thread t: it returns once the mutex is free
SDL_LockMutex(m, t) == [m EXCEPT !.mutex = t]
SDL_UnlockMutex(m) == [m EXCEPT !.mutex = "free"]

\* packet_queue_put: SDL_LockMutex(q->mutex)
LkPutLock ==
    /\ th_read = "idle"
    /\ q.nb_packets < MaxQueue
    /\ q.mutex = "free"
    /\ q' = SDL_LockMutex(q, "reader")
    /\ th_read' = "put"
    /\ UNCHANGED <<othersLock, f, ppc, cpc, fq_pushed>>

\* packet_queue_put: packet_queue_put_private, SDL_UnlockMutex
LkPut ==
    /\ th_read = "put"
    /\ q' = SDL_UnlockMutex(packet_queue_put_private(q, DataPkt(1, 0)).q)
    /\ th_read' = "idle"
    /\ UNCHANGED <<othersLock, f, ppc, cpc, fq_pushed>>

\* packet_queue_get: SDL_LockMutex(q->mutex)
LkGetLock ==
    /\ ppc = "idle"
    /\ fq_pushed < MaxFrames
    /\ q.mutex = "free"
    /\ q' = SDL_LockMutex(q, "decoder")
    /\ ppc' = "get"
    /\ UNCHANGED <<othersLock, f, th_read, cpc, fq_pushed>>

\* packet_queue_get: the first packet is unlinked and the mutex released,
\* or SDL_CondWait releases it on an empty queue (the sentinel is not
\* decoded)
LkGet ==
    /\ ppc = "get"
    /\ LET r == packet_queue_get(q) IN
       /\ q' = SDL_UnlockMutex(r.q)
       /\ ppc' = IF r.ret = 1 /\ r.pkt.kind = "data" THEN "writable" ELSE "idle"
    /\ UNCHANGED <<othersLock, f, th_read, cpc, fq_pushed>>

\* frame_queue_peek_writable: SDL_LockMutex(f->mutex)
LkWritableLock ==
    /\ ppc = "writable"
    /\ f.mutex = "free"
    /\ f' = SDL_LockMutex(f, "decoder")
    /\ ppc' = "writable_locked"
    /\ UNCHANGED <<othersLock, q, th_read, cpc, fq_pushed>>

\* frame_queue_peek_writable: SDL_CondWait on a full queue, else
\* SDL_UnlockMutex and the slot at windex
LkWritable ==
    /\ ppc = "writable_locked"
    /\ f' = SDL_UnlockMutex(f)
    /\ ppc' = IF frame_queue_peek_writable_wait(f, q) THEN "writable" ELSE "fill"
    /\ UNCHANGED <<othersLock, q, th_read, cpc, fq_pushed>>

\* queue_picture: the slot is filled and stamped
LkFill ==
    /\ ppc = "fill"
    /\ f' = [f EXCEPT !.queue[f.windex] = Frame(fq_pushed + 1, q.serial)]
    /\ ppc' = "push"
    /\ UNCHANGED <<othersLock, q, th_read, cpc, fq_pushed>>

\* frame_queue_push: ++windex
LkPushIndex ==
    /\ ppc = "push"
    /\ f' = frame_queue_push_windex(f)
    /\ ppc' = "push_lock"
    /\ UNCHANGED <<othersLock, q, th_read, cpc, fq_pushed>>

\* frame_queue_push: SDL_LockMutex(f->mutex)
LkPushLock ==
    /\ ppc = "push_lock"
    /\ f.mutex = "free"
    /\ f' = SDL_LockMutex(f, "decoder")
    /\ ppc' = "push_locked"
    /\ UNCHANGED <<othersLock, q, th_read, cpc, fq_pushed>>

\* frame_queue_push: size++, SDL_CondSignal, SDL_UnlockMutex
LkPushSize ==
    /\ ppc = "push_locked"
    /\ f' = SDL_UnlockMutex(frame_queue_push_size(f))
    /\ fq_pushed' = fq_pushed + 1
    /\ ppc' = "idle"
    /\ UNCHANGED <<othersLock, q, th_read, cpc>>

\* video_refresh: frame_queue_nb_remaining() tested, no mutex
LkNbRemaining ==
    /\ cpc = "idle"
    /\ frame_queue_nb_remaining(f) > 0
    /\ cpc' = "next"
    /\ UNCHANGED <<othersLock, q, f, th_read, ppc, fq_pushed>>

\* frame_queue_next: rindex_shown = 1 and return, or the slot released and
\* ++rindex
LkNextIndex ==
    /\ cpc = "next"
    /\ LET r == frame_queue_next_rindex(f) IN
          /\ f' = r.f
          /\ cpc' = IF r.done THEN "idle" ELSE "next_lock"
    /\ UNCHANGED <<othersLock, q, th_read, ppc, fq_pushed>>

\* frame_queue_next: SDL_LockMutex(f->mutex)
LkNextLock ==
    /\ cpc = "next_lock"
    /\ f.mutex = "free"
    /\ f' = SDL_LockMutex(f, "renderer")
    /\ cpc' = "next_locked"
    /\ UNCHANGED <<othersLock, q, th_read, ppc, fq_pushed>>

\* frame_queue_next: size--, SDL_CondSignal, SDL_UnlockMutex
LkNextSize ==
    /\ cpc = "next_locked"
    /\ f' = SDL_UnlockMutex(frame_queue_next_size(f))
    /\ cpc' = "idle"
    /\ UNCHANGED <<othersLock, q, th_read, ppc, fq_pushed>>

NextLock ==
    \/ LkPutLock \/ LkPut \/ LkGetLock \/ LkGet
    \/ LkWritableLock \/ LkWritable \/ LkFill
    \/ LkPushIndex \/ LkPushLock \/ LkPushSize
    \/ LkNbRemaining \/ LkNextIndex \/ LkNextLock \/ LkNextSize

SpecLock == InitLock /\ [][NextLock]_vars

(***************************************************************************)
(* Claims about the mutexes (SpecLock)                                     *)
(***************************************************************************)
\* the thread that takes the step
Stepping ==
    IF th_read' # th_read THEN "reader"
    ELSE IF ppc' # ppc THEN "decoder"
    ELSE "renderer"

\* the fields of the PacketQueue other than the mutex
PQFields(pq) == [pq EXCEPT !.mutex = "free"]

\* a step that writes a field of the PacketQueue is taken by the thread
\* that holds q->mutex
PQWritesLocked == PQFields(q') # PQFields(q) => q.mutex = Stepping

\* C26 as stated: every write to a field of the PacketQueue or of the
\* FrameQueue (rindex, windex, rindex_shown, size, the slots) is made by the
\* thread that holds the mutex of that queue
C26_Original ==
    [][/\ PQWritesLocked
       /\ [f' EXCEPT !.mutex = "free"] # [f EXCEPT !.mutex = "free"]
             => f.mutex = Stepping]_vars

\* C26 amended: every write to a field of the PacketQueue and every write to
\* the FrameQueue's size is made by the thread that holds the mutex of that
\* queue; windex and the slot at windex are written by the decoder thread
\* alone, rindex, rindex_shown and the slot at rindex by the renderer alone,
\* with the mutex not held
C26_MutexDiscipline ==
    [][/\ PQWritesLocked
       /\ f'.size # f.size => f.mutex = Stepping
       /\ f'.windex # f.windex => Stepping = "decoder" /\ f.mutex # "decoder"
       /\ (f'.rindex # f.rindex \/ f'.rindex_shown # f.rindex_shown)
             => Stepping = "renderer" /\ f.mutex # "renderer"
       /\ f'.queue # f.queue
             => /\ f.mutex # Stepping
                /\ \/ Stepping = "decoder" /\ f'.queue[f.windex] # f.queue[f.windex]
                   \/ Stepping = "renderer" /\ f'.queue[f.rindex] # f.queue[f.rindex]
       /\ f'.max_size = f.max_size /\ f'.keep_last = f.keep_last]_vars

\* C26 witness: the renderer is about to lower size under f->mutex, the
\* decoder thread has moved windex and waits for the mutex, and the reader
\* holds q->mutex to put a packet
C26_Witness ==
    /\ cpc = "next_locked" /\ f.mutex = "renderer"
    /\ ppc = "push_lock" /\ f.windex # 0
    /\ th_read = "put" /\ q.mutex = "reader"

(***************************************************************************)
(* SpecDrv: decoder_decode_frame statement by statement against a reader   *)
(* that puts packets and handles seeks.  The tests of d->queue->serial are *)
(* made without q->mutex, so they are steps of their own: "top" (the test  *)
(* before avcodec_receive_frame), "receive", "get", "compare" (the while   *)
(* condition after packet_queue_get), "feed".  pq_got is the packet in     *)
(* hand with the queue's serial as the comparison read it, pq_op the last  *)
(* call into the codec with the queue's serial at that moment.             *)
(***************************************************************************)
othersDrv ==
    <<pq_entered, pq_prev, pq_maxgot, varsFQ, strm, force_refresh, vr_disp, now,
      varsClock, varsSpeed, varsAbort, varsRead, varsSeek>>

NoCodecOp == [op |-> "none", serial |-> -1, qserial |-> -1, tested |-> -1]

InitDrv ==
    /\ FQParked
    /\ ClockParked
    /\ AbortParked
    /\ pq_entered = 0
    /\ pq_prev = 0
    /\ pq_maxgot = -1
    /\ strm = "video"
    /\ force_refresh = 0
    /\ vr_disp = NoDisp
    /\ q = packet_queue_start(packet_queue_init)
    /\ dec = decoder_init
    /\ dpc = "top"
    /\ pq_got = NoGet
    /\ pq_op = NoCodecOp

\* mutant: the packet in hand is never taken for stale
decoder_packet_stale_Never(dc, pq) == FALSE

\* decoder_decode_frame: the condition of the do-while around the fetch
decoder_packet_stale(dc, pq) == pq.serial # dc.pkt_serial

\* read_thread_loop: a demuxed packet of the stream is queued
DrvPut ==
    /\ Len(q.pkts) < MaxQueue
    /\ q' = packet_queue_put(q, DataPkt(1, 0)).q
    /\ UNCHANGED <<othersDrv, dec, dpc, pq_got, pq_op>>

\* read_thread_loop_handle_seek on this stream
DrvSeek ==
    /\ q.serial < MaxSerial
    /\ q' = handle_seek(q)
    /\ UNCHANGED <<othersDrv, dec, dpc, pq_got, pq_op>>

\* if (d->queue->serial == d->pkt_serial)
DrvTop ==
    /\ dpc = "top"
    /\ dpc' = IF q.serial = dec.pkt_serial THEN "receive" ELSE "get"
    /\ pq_got' = [pq_got EXCEPT !.qserial = q.serial]
    /\ UNCHANGED <<othersDrv, q, dec, pq_op>>

\* avcodec_receive_frame: a frame (the driver returns 1 and is called
\* again) or EAGAIN
DrvReceive ==
    /\ dpc = "receive"
    /\ pq_op' = [op |-> "receive", serial |-> dec.pkt_serial,
                 qserial |-> q.serial, tested |-> pq_got.qserial]
    /\ dec' = [dec EXCEPT !.codec = IF @ > 0 THEN @ - 1 ELSE @]
    /\ dpc' = IF dec.codec > 0 THEN "top" ELSE "get"
    /\ UNCHANGED <<othersDrv, q, pq_got>>

\* packet_queue_get(d->queue, &pkt, 1, &d->pkt_serial), blocking
DrvGet ==
    /\ dpc = "get"
    /\ LET r == packet_queue_get(q) IN
          /\ r.ret = 1
          /\ q' = r.q
          /\ dec' = [dec EXCEPT !.pkt_serial = r.serial]
          /\ pq_got' = [ret |-> r.ret, serial |-> r.serial, qserial |-> -1,
                        kind |-> r.pkt.kind]
    /\ dpc' = "compare"
    /\ UNCHANGED <<othersDrv, pq_op>>

\* while (d->queue->serial != d->pkt_serial)
DrvCompare ==
    /\ dpc = "compare"
    /\ dpc' = IF decoder_packet_stale(dec, q) THEN "get" ELSE "feed"
    /\ pq_got' = [pq_got EXCEPT !.qserial = q.serial]
    /\ UNCHANGED <<othersDrv, q, dec, pq_op>>

\* the flush sentinel resets the codec, any other packet is sent to it
DrvFeed ==
    /\ dpc = "feed"
    /\ IF pq_got.kind = "flush"
       THEN /\ dec' = [dec EXCEPT !.codec = 0, !.finished = 0]
            /\ pq_op' = [op |-> "flush", serial |-> pq_got.serial,
                         qserial |-> q.serial, tested |-> pq_got.qserial]
       ELSE /\ dec' = [dec EXCEPT !.codec = @ + 1]
            /\ pq_op' = [op |-> "send", serial |-> pq_got.serial,
                         qserial |-> q.serial, tested |-> pq_got.qserial]
    /\ dpc' = "top"
    /\ UNCHANGED <<othersDrv, q, pq_got>>

NextDrv ==
    \/ DrvPut \/ DrvSeek
    \/ DrvTop \/ DrvReceive \/ DrvGet \/ DrvCompare \/ DrvFeed

SpecDrv == InitDrv /\ [][NextDrv]_vars

(***************************************************************************)
(* Claims about the decoder driver (SpecDrv)                               *)
(***************************************************************************)
\* C28 as stated: when a packet is sent to the codec its stamped serial is
\* the queue's serial, and when a frame is asked of the codec the decoder's
\* pkt_serial is the queue's serial, in every interleaving with the reader
C28_Original ==
    pq_op.op \in {"send", "receive"} => pq_op.serial = pq_op.qserial

\* C28 amended: a packet is sent to the codec, and a frame is asked of it,
\* only if the serial (of the packet, of the decoder) was the queue's serial
\* when the driver last compared the two; by the time of the call the
\* queue's serial can be higher, and then the flush sentinel of that serial
\* is still in the queue or in the driver's hand, before any packet of the
\* new serial
C28_NoPriorEpochAtTest ==
    pq_op.op \in {"send", "receive"} =>
        /\ pq_op.serial = pq_op.tested
        /\ pq_op.serial <= pq_op.qserial
        /\ (pq_op.serial < pq_op.qserial /\ pq_op.qserial = q.serial) =>
              \/ \E i \in 1 .. Len(q.pkts) :
                    q.pkts[i].pkt.kind = "flush" /\ q.pkts[i].serial = q.serial
              \/ pq_got.kind = "flush" /\ pq_got.serial = q.serial

\* C28 witness: a packet of the second epoch was sent to the codec after a
\* packet of the first epoch had been fetched and dropped
C28_Witness ==
    /\ pq_op.op = "send"
    /\ pq_op.serial = pq_op.qserial
    /\ pq_op.serial > 1
    /\ dec.codec > 0

(***************************************************************************)
(* SpecLoop: read_thread_loop_handle_loop in a reader loop whose decoders  *)
(* drain and are flushed, whose renderers take frames, and whose user      *)
(* pauses and seeks.  loop and autoexit are the configuration, drawn at    *)
(* the start.  th_q and th_f are the packet and frame queues of the two    *)
(* streams (a frame queue of one slot that keeps its last frame),          *)
(* is holds paused and the streams present, rd the reader's and            *)
(* the decoders' fields, clk_h the last call of the handler.               *)
(***************************************************************************)
MaxLoop == 2

othersLoop ==
    <<varsPQ, varsFQ, varsPipe, now, varsSpeed, abort_request, th_qwait,
      th_fwait, th_dec, th_close, th_at, varsSeek>>

NoLoop(loop, autoexit) ==
    [loop |-> loop, autoexit |-> autoexit,
     seek_req |-> 0, seek_pos |-> -1, seek_rel |-> 0, seek_flags |-> 0,
     pkt_serial |-> [s \in StreamSet |-> -1],
     finished |-> [s \in StreamSet |-> 0], eof |-> 0, events |-> 0]

InitLoop ==
    /\ QueuesParked
    /\ SpeedParked
    /\ now = 0
    /\ abort_request = 0
    /\ th_qwait = [s \in StreamSet |-> {}]
    /\ th_fwait = [s \in StreamSet |-> {}]
    /\ th_dec = [s \in StreamSet |-> "none"]
    /\ th_close = [pc |-> "none", i |-> 0, log |-> <<>>]
    /\ th_at = {}
    /\ sk = NoSeek
    /\ th_read = "loop"
    /\ \E audio_st \in {0, 1}, video_st \in {0, 1} :
          /\ is = VideoState(AV_SYNC_AUDIO_MASTER, video_st, audio_st, 0, 0)
          /\ th_q = [s \in StreamSet |->
                       IF (IF s = "audio" THEN audio_st ELSE video_st) = 1
                       THEN packet_queue_start(packet_queue_init)
                       ELSE packet_queue_init]
    /\ th_f = [s \in StreamSet |-> frame_queue_init(1, 1)]
    /\ \E loop \in 0 .. MaxLoop, autoexit \in {0, 1} : rd = NoLoop(loop, autoexit)
    /\ clk_h = NoCall

\* is->audio_st, is->video_st
StreamPresent(vs, s) == (IF s = "audio" THEN vs.audio_st ELSE vs.video_st) = 1

\* the condition of read_thread_loop_handle_loop
playback_ended(vs, qs, fs, r) ==
    /\ vs.paused = 0
    /\ ~StreamPresent(vs, "audio")
          \/ /\ r.finished["audio"] = qs["audio"].serial
             /\ frame_queue_nb_remaining(fs["audio"]) = 0
    /\ ~StreamPresent(vs, "video")
          \/ /\ r.finished["video"] = qs["video"].serial
             /\ frame_queue_nb_remaining(fs["video"]) = 0

\* mutant: a paused player too is taken to have ended
read_thread_loop_handle_loop_Paused(vs, qs, fs, r) ==
    IF playback_ended([vs EXCEPT !.paused = 0], qs, fs, r)
    THEN IF r.loop # 1
         THEN [ret |-> 0,
               r |-> stream_seek([r EXCEPT !.loop = IF @ = 0 THEN 0 ELSE @ - 1],
                                 0, 0, 0)]
         ELSE [ret |-> IF r.autoexit # 0 THEN AVERROR_EOF ELSE 0, r |-> r]
    ELSE [ret |-> 0, r |-> r]

\* read_thread_loop_handle_loop, start_time not set: loop != 1 &&
\* (!loop || --loop) asks for the seek to 0, else autoexit ends the loop
read_thread_loop_handle_loop(vs, qs, fs, r) ==
    IF playback_ended(vs, qs, fs, r)
    THEN IF r.loop # 1
         THEN [ret |-> 0,
               r |-> stream_seek([r EXCEPT !.loop = IF @ = 0 THEN 0 ELSE @ - 1],
                                 0, 0, 0)]
         ELSE [ret |-> IF r.autoexit # 0 THEN AVERROR_EOF ELSE 0, r |-> r]
    ELSE [ret |-> 0, r |-> r]

\* the reader passes read_thread_loop_handle_loop; a result below 0 ends
\* read_thread_loop
LpHandleLoop ==
    /\ th_read = "loop"
    /\ LET n == read_thread_loop_handle_loop(is, th_q, th_f, rd) IN
          /\ rd' = n.r
          /\ th_read' = IF n.ret < 0 THEN "exit" ELSE "loop"
          /\ clk_h' = [called |-> TRUE, ret |-> n.ret,
                       ended |-> playback_ended(is, th_q, th_f, rd),
                       paused |-> is.paused,
                       drained |-> [s \in StreamSet |->
                                      /\ rd.finished[s] = th_q[s].serial
                                      /\ frame_queue_nb_remaining(th_f[s]) = 0],
                       present |-> [s \in StreamSet |-> StreamPresent(is, s)],
                       before |-> rd, after |-> n.r]
    /\ UNCHANGED <<othersLoop, is, th_q, th_f>>

\* the reader passes read_thread_loop_handle_seek
LpHandleSeek ==
    /\ th_read = "loop"
    /\ rd.seek_req = 1
    /\ \A s \in StreamSet : th_q[s].serial < MaxSerial
    /\ \E ret \in {0, -1} :
          th_q' = IF ret < 0 THEN th_q
                  ELSE [s \in StreamSet |->
                          IF StreamPresent(is, s) THEN handle_seek(th_q[s])
                          ELSE th_q[s]]
    /\ rd' = [rd EXCEPT !.seek_req = 0, !.eof = 0]
    /\ UNCHANGED <<othersLoop, is, th_f, th_read, clk_h>>

\* av_read_frame at the end of the file with eof clear: a null packet for
\* every stream present, and eof is set
LpReadEof ==
    /\ th_read = "loop"
    /\ rd.eof = 0
    /\ \A s \in StreamSet : th_q[s].nb_packets <= MaxThPackets
    /\ th_q' = [s \in StreamSet |->
                IF StreamPresent(is, s)
                THEN packet_queue_put(th_q[s], NullPkt(0)).q
                ELSE th_q[s]]
    /\ rd' = [rd EXCEPT !.eof = 1]
    /\ UNCHANGED <<othersLoop, is, th_f, th_read, clk_h>>

\* decoder_decode_frame takes a packet: the sentinel clears finished, the
\* null packet drains the codec and finished becomes pkt_serial; a packet
\* off the queue's serial is dropped
LpDecode(s) ==
    /\ LET g == packet_queue_get(th_q[s]) IN
          /\ g.ret = 1
          /\ th_q' = [th_q EXCEPT ![s] = g.q]
          /\ rd' = [rd EXCEPT !.pkt_serial[s] = g.serial,
                              !.finished[s] =
                                  IF g.q.serial # g.serial THEN @
                                  ELSE IF g.pkt.kind = "flush" THEN 0
                                  ELSE g.serial]
    /\ UNCHANGED <<othersLoop, is, th_f, th_read, clk_h>>

\* a decoder thread queues a frame
LpFrame(s) ==
    /\ StreamPresent(is, s)
    /\ rd.finished[s] = 0
    /\ ~frame_queue_peek_writable_wait(th_f[s], th_q[s])
    /\ th_f' = [th_f EXCEPT ![s] = frame_queue_push(@)]
    /\ UNCHANGED <<othersLoop, is, th_q, th_read, rd, clk_h>>

\* a renderer is done with a frame
LpRender(s) ==
    /\ frame_queue_nb_remaining(th_f[s]) > 0
    /\ th_f' = [th_f EXCEPT ![s] = frame_queue_next(@)]
    /\ UNCHANGED <<othersLoop, is, th_q, th_read, rd, clk_h>>

\* the pause key
LpTogglePause ==
    /\ rd.events < MaxEvents
    /\ is' = [stream_toggle_pause(is, now) EXCEPT !.step = 0]
    /\ rd' = [rd EXCEPT !.events = @ + 1]
    /\ UNCHANGED <<othersLoop, th_q, th_f, th_read, clk_h>>

NextLoop ==
    \/ LpHandleLoop \/ LpHandleSeek \/ LpTogglePause \/ LpReadEof
    \/ \E s \in StreamSet : LpDecode(s) \/ LpFrame(s) \/ LpRender(s)

SpecLoop == InitLoop /\ [][NextLoop]_vars

(***************************************************************************)
(* Claims about the end of playback (SpecLoop)                             *)
(***************************************************************************)
\* the handler asked for a seek to the start: stream_seek(0) was called
\* with its loop count lowered by one when it is finite
LoopSought ==
    /\ clk_h.after.seek_req = 1
    /\ clk_h.before.seek_req = 0 => clk_h.after.seek_pos = 0
    /\ clk_h.after.loop = IF clk_h.before.loop = 0 THEN 0 ELSE clk_h.before.loop - 1
    /\ clk_h.ret = 0

\* C29: the handler takes playback as ended exactly when the player is not
\* paused and every stream present has finished equal to its queue's serial
\* and no frame remaining; then it asks for a seek to the start when loop is
\* not 1 (lowering a finite count by one), else ends the reader loop with
\* AVERROR_EOF when autoexit is set; in every other state it does neither
\* and changes nothing
C29_EndOfPlayback ==
    clk_h.called =>
        LET ended == /\ clk_h.paused = 0
                     /\ \A s \in StreamSet : clk_h.present[s] => clk_h.drained[s]
        IN  IF ended
            THEN IF clk_h.before.loop # 1 THEN LoopSought
                 ELSE /\ clk_h.after = clk_h.before
                      /\ clk_h.ret = IF clk_h.before.autoexit # 0 THEN AVERROR_EOF
                                     ELSE 0
                      /\ clk_h.ret < 0 <=> th_read = "exit"
            ELSE /\ clk_h.after = clk_h.before
                 /\ clk_h.ret = 0

\* C29 witness: both streams drained after their null packets, the handler
\* asked for the seek to the start and lowered the loop count from 2 to 1
C29_Witness ==
    /\ clk_h.called
    /\ clk_h.present["audio"] /\ clk_h.present["video"]
    /\ clk_h.drained["audio"] /\ clk_h.drained["video"]
    /\ clk_h.before.loop = 2 /\ clk_h.after.loop = 1
    /\ clk_h.before.seek_req = 0
    /\ clk_h.after.seek_req = 1 /\ clk_h.after.seek_pos = 0

(***************************************************************************)
(* SpecDelay: compute_target_delay over the clocks of a VideoState.  The   *)
(* clocks are stamped at time 0 with readings around the thresholds, then  *)
(* the delay of a frame is computed; clk_h keeps the last call.  A delay   *)
(* is a number of thousandths of a second.                                 *)
(***************************************************************************)
AV_SYNC_THRESHOLD_MIN == 40
AV_SYNC_THRESHOLD_MAX == 100
AV_SYNC_FRAMEDUP_THRESHOLD == 100

\* is->max_frame_duration: 10.0 for a format with timestamp
\* discontinuities, else 3600.0
MaxFrameDurations == {10 * One, 3600 * One}

\* the frame durations handed in as delay
Delays == {0, 20, 40, 70, 100, 150}

\* readings the video clock is set to, the master staying near 0
DelayPts ==
    {NAN} \cup {Dbl(x) : x \in {-10001, -10000, -9999, -150, -100, -99, -70,
                                -40, -39, 0, 39, 40, 70, 99, 100, 150,
                                9999, 10000, 10001}}
MasterPts == {NAN, Dbl(0)}

othersDelay ==
    <<varsPQ, varsFQ, varsPipe, varsSpeed, varsAbort, varsRead, varsSeek, now>>

NoDelay ==
    [called |-> FALSE, delay |-> 0, mfd |-> 0, master |-> AV_SYNC_AUDIO_MASTER,
     diff |-> NAN, ret |-> 0]

InitDelay ==
    /\ QueuesParked
    /\ SpeedParked
    /\ AbortParked
    /\ now = 0
    /\ \E sync \in {AV_SYNC_AUDIO_MASTER, AV_SYNC_VIDEO_MASTER, AV_SYNC_EXTERNAL_CLOCK} :
          is = VideoState(sync, 1, 1, 0, 0)
    /\ clk_h = NoDelay

\* a - b on doubles
DSub(a, b) == IF isnan(a) \/ isnan(b) THEN NAN ELSE Dbl(a.v - b.v)

\* mutant: a late frame's delay is not kept from falling below 0
compute_target_delay_NoFloor(delay, vs, mfd, time) ==
    IF get_master_sync_type(vs) # AV_SYNC_VIDEO_MASTER
    THEN LET diff == DSub(get_clock(vs.vidclk, vs.videoq_serial, time),
                          get_master_clock(vs, time))
             sync_threshold == Max(AV_SYNC_THRESHOLD_MIN,
                                   Min(AV_SYNC_THRESHOLD_MAX, delay))
         IN  IF ~isnan(diff) /\ fabs(diff.v) < mfd
             THEN IF diff.v <= -sync_threshold THEN delay + diff.v
                  ELSE IF diff.v >= sync_threshold /\ delay > AV_SYNC_FRAMEDUP_THRESHOLD
                  THEN delay + diff.v
                  ELSE IF diff.v >= sync_threshold THEN 2 * delay
                  ELSE delay
             ELSE delay
    ELSE delay

\* compute_target_delay; mfd is is->max_frame_duration
compute_target_delay(delay, vs, mfd, time) ==
    IF get_master_sync_type(vs) # AV_SYNC_VIDEO_MASTER
    THEN LET diff == DSub(get_clock(vs.vidclk, vs.videoq_serial, time),
                          get_master_clock(vs, time))
             sync_threshold == Max(AV_SYNC_THRESHOLD_MIN,
                                   Min(AV_SYNC_THRESHOLD_MAX, delay))
         IN  IF ~isnan(diff) /\ fabs(diff.v) < mfd
             THEN IF diff.v <= -sync_threshold THEN Max(0, delay + diff.v)
                  ELSE IF diff.v >= sync_threshold /\ delay > AV_SYNC_FRAMEDUP_THRESHOLD
                  THEN delay + diff.v
                  ELSE IF diff.v >= sync_threshold THEN 2 * delay
                  ELSE delay
             ELSE delay
    ELSE delay

\* set_clock on the video clock (update_video_pts without the slave)
DlVideoClock ==
    /\ \E pts \in DelayPts :
          is' = [is EXCEPT !.vidclk = set_clock(@, pts, is.videoq_serial, now)]
    /\ UNCHANGED <<othersDelay, clk_h>>

\* set_clock on the audio and the external clock
DlMasterClock ==
    /\ \E pa \in MasterPts, pe \in MasterPts :
          is' = [is EXCEPT !.audclk = set_clock(@, pa, is.audioq_serial, now),
                           !.extclk = set_clock(@, pe, is.extclk.serial, now)]
    /\ UNCHANGED <<othersDelay, clk_h>>

\* video_refresh asks for the delay of the frame it is about to show
DlCompute ==
    /\ \E delay \in Delays, mfd \in MaxFrameDurations :
          clk_h' = [called |-> TRUE, delay |-> delay, mfd |-> mfd,
                    master |-> get_master_sync_type(is),
                    diff |-> DSub(get_clock(is.vidclk, is.videoq_serial, now),
                                  get_master_clock(is, now)),
                    ret |-> compute_target_delay(delay, is, mfd, now)]
    /\ UNCHANGED <<othersDelay, is>>

NextDelay == DlVideoClock \/ DlMasterClock \/ DlCompute

SpecDelay == InitDelay /\ [][NextDelay]_vars

(***************************************************************************)
(* Claims about compute_target_delay (SpecDelay)                           *)
(***************************************************************************)
\* clip(delay, 0.04, 0.1)
DelayThreshold(delay) ==
    IF delay < AV_SYNC_THRESHOLD_MIN THEN AV_SYNC_THRESHOLD_MIN
    ELSE IF delay > AV_SYNC_THRESHOLD_MAX THEN AV_SYNC_THRESHOLD_MAX
    ELSE delay

\* the delay the claim states for a difference that is taken into account
DelayAdjusted(delay, diff) ==
    IF diff <= -DelayThreshold(delay)
    THEN (IF delay + diff > 0 THEN delay + diff ELSE 0)
    ELSE IF diff >= DelayThreshold(delay)
    THEN (IF delay > AV_SYNC_FRAMEDUP_THRESHOLD THEN delay + diff ELSE 2 * delay)
    ELSE delay

AUDIO_DIFF_AVG_NB == 20
SAMPLE_CORRECTION_PERCENT_MAX == 10

\* is->audio_diff_avg_coef = exp(log(0.01) / AUDIO_DIFF_AVG_NB), per mille
AudioDiffAvgCoef == 794
\* is->audio_diff_threshold = audio_hw_buf_size / bytes_per_sec: 4096 bytes
\* of 44100 Hz stereo 16 bit
AudioDiffThreshold == 23
\* is->audio_src.freq
AudioSrcFreq == 44100

\* af->frame->nb_samples
NbSamples == {1024, 1152}

\* readings the audio clock is set to, the master at 0
AudioPts == {NAN, Dbl(-10 * One), Dbl(-40), Dbl(1), Dbl(40)}

\* the division of C, towards 0
TruncDiv(a, b) == IF a >= 0 THEN a \div b ELSE -((-a) \div b)

av_clip(a, amin, amax) ==
    IF a < amin THEN amin ELSE IF a > amax THEN amax ELSE a

othersSyncAudio ==
    <<varsPQ, varsFQ, varsPipe, varsSpeed, abort_request, th_q, th_f, th_qwait,
      th_fwait, th_read, th_dec, th_close, th_at, varsSeek, now>>

NoSyncCall ==
    [called |-> FALSE, nb_samples |-> 0, master |-> AV_SYNC_AUDIO_MASTER,
     diff |-> NAN, before |-> [audio_diff_cum |-> 0, audio_diff_avg_count |-> 0],
     ret |-> 0]

InitSyncAudio ==
    /\ QueuesParked
    /\ SpeedParked
    /\ abort_request = 0
    /\ th_q = [s \in StreamSet |-> packet_queue_init]
    /\ th_f = [s \in StreamSet |-> frame_queue_init(1, 0)]
    /\ th_qwait = [s \in StreamSet |-> {}]
    /\ th_fwait = [s \in StreamSet |-> {}]
    /\ th_read = "none"
    /\ th_dec = [s \in StreamSet |-> "none"]
    /\ th_close = [pc |-> "none", i |-> 0, log |-> <<>>]
    /\ th_at = {}
    /\ sk = NoSeek
    /\ now = 0
    /\ \E sync \in {AV_SYNC_AUDIO_MASTER, AV_SYNC_VIDEO_MASTER, AV_SYNC_EXTERNAL_CLOCK} :
          LET vs == VideoState(sync, 1, 1, 0, 0) IN
          is = [vs EXCEPT !.vidclk = set_clock(@, Dbl(0), vs.videoq_serial, 0),
                          !.extclk = set_clock(@, Dbl(0), @.serial, 0)]
    /\ rd = [audio_diff_cum |-> 0, audio_diff_avg_count |-> 0]
    /\ clk_h = NoSyncCall

\* mutant: the corrected count is not clipped
synchronize_audio_NoClip(vs, r, nb_samples, time) ==
    IF get_master_sync_type(vs) # AV_SYNC_AUDIO_MASTER
    THEN LET diff == IF isnan(get_clock(vs.audclk, vs.audioq_serial, time))
                        \/ isnan(get_master_clock(vs, time))
                     THEN NAN
                     ELSE Dbl(get_clock(vs.audclk, vs.audioq_serial, time).v
                              - get_master_clock(vs, time).v)
         IN  IF ~isnan(diff) /\ fabs(diff.v) < AV_NOSYNC_THRESHOLD * One
             THEN LET cum == diff.v + TruncDiv(AudioDiffAvgCoef * r.audio_diff_cum, One)
                      avg_diff == TruncDiv(cum * (One - AudioDiffAvgCoef), One)
                  IN  IF r.audio_diff_avg_count < AUDIO_DIFF_AVG_NB
                      THEN [ret |-> nb_samples,
                            r |-> [r EXCEPT !.audio_diff_cum = cum,
                                            !.audio_diff_avg_count = @ + 1]]
                      ELSE [ret |-> IF fabs(avg_diff) >= AudioDiffThreshold
                                    THEN nb_samples + TruncDiv(diff.v * AudioSrcFreq, One)
                                    ELSE nb_samples,
                            r |-> [r EXCEPT !.audio_diff_cum = cum]]
             ELSE [ret |-> nb_samples,
                   r |-> [r EXCEPT !.audio_diff_cum = 0, !.audio_diff_avg_count = 0]]
    ELSE [ret |-> nb_samples, r |-> r]

\* synchronize_audio; r holds audio_diff_cum and audio_diff_avg_count
synchronize_audio(vs, r, nb_samples, time) ==
    IF get_master_sync_type(vs) # AV_SYNC_AUDIO_MASTER
    THEN LET diff == IF isnan(get_clock(vs.audclk, vs.audioq_serial, time))
                        \/ isnan(get_master_clock(vs, time))
                     THEN NAN
                     ELSE Dbl(get_clock(vs.audclk, vs.audioq_serial, time).v
                              - get_master_clock(vs, time).v)
         IN  IF ~isnan(diff) /\ fabs(diff.v) < AV_NOSYNC_THRESHOLD * One
             THEN LET cum == diff.v + TruncDiv(AudioDiffAvgCoef * r.audio_diff_cum, One)
                      avg_diff == TruncDiv(cum * (One - AudioDiffAvgCoef), One)
                  IN  IF r.audio_diff_avg_count < AUDIO_DIFF_AVG_NB
                      THEN [ret |-> nb_samples,
                            r |-> [r EXCEPT !.audio_diff_cum = cum,
                                            !.audio_diff_avg_count = @ + 1]]
                      ELSE [ret |-> IF fabs(avg_diff) >= AudioDiffThreshold
                                    THEN av_clip(
                                           nb_samples + TruncDiv(diff.v * AudioSrcFreq, One),
                                           (nb_samples * (100 - SAMPLE_CORRECTION_PERCENT_MAX)) \div 100,
                                           (nb_samples * (100 + SAMPLE_CORRECTION_PERCENT_MAX)) \div 100)
                                    ELSE nb_samples,
                            r |-> [r EXCEPT !.audio_diff_cum = cum]]
             ELSE [ret |-> nb_samples,
                   r |-> [r EXCEPT !.audio_diff_cum = 0, !.audio_diff_avg_count = 0]]
    ELSE [ret |-> nb_samples, r |-> r]

\* the audio callback has stamped the audio clock and decodes the next
\* frame: check_init_swr calls synchronize_audio with the frame's nb_samples
SaSynchronize ==
    /\ \E pts \in AudioPts, n \in NbSamples :
          LET vs == [is EXCEPT !.audclk = set_clock(@, pts, is.audioq_serial, now)]
              s == synchronize_audio(vs, rd, n, now)
          IN  /\ is' = vs
              /\ rd' = s.r
              /\ clk_h' = [called |-> TRUE, nb_samples |-> n,
                           master |-> get_master_sync_type(vs),
                           diff |-> IF isnan(pts) \/ isnan(get_master_clock(vs, now))
                                    THEN NAN
                                    ELSE Dbl(pts.v - get_master_clock(vs, now).v),
                           before |-> rd, ret |-> s.ret]
    /\ UNCHANGED othersSyncAudio

NextSyncAudio == SaSynchronize

SpecSyncAudio == InitSyncAudio /\ [][NextSyncAudio]_vars

(***************************************************************************)
(* Claims about synchronize_audio (SpecSyncAudio)                          *)
(***************************************************************************)
\* the cases in which the sample count is returned as it came
SyncAudioUnchanged ==
    /\ clk_h.master = AV_SYNC_AUDIO_MASTER =>
          clk_h.ret = clk_h.nb_samples /\ rd = clk_h.before
    /\ /\ clk_h.master # AV_SYNC_AUDIO_MASTER
       /\ isnan(clk_h.diff) \/ fabs(clk_h.diff.v) >= AV_NOSYNC_THRESHOLD * One
       => /\ clk_h.ret = clk_h.nb_samples
          /\ rd.audio_diff_cum = 0 /\ rd.audio_diff_avg_count = 0
    /\ /\ clk_h.master # AV_SYNC_AUDIO_MASTER
       /\ ~isnan(clk_h.diff) /\ fabs(clk_h.diff.v) < AV_NOSYNC_THRESHOLD * One
       /\ clk_h.before.audio_diff_avg_count < 20
       => /\ clk_h.ret = clk_h.nb_samples
          /\ rd.audio_diff_avg_count = clk_h.before.audio_diff_avg_count + 1

Pow62Mod == 507904

D(k, r) == [k |-> k, r |-> r]

\* the spacing of the doubles around (k, r), in DUnit
DGrid(k, r) ==
    IF k > 1000 \/ (k = 1000 /\ r >= 0) THEN 1024000
    ELSE IF k >= 500 THEN 512000
    ELSE 1000

\* round to nearest, ties to even: the double the sum k / 1000 + r * DUnit
\* is stored as
DRound(k, r) ==
    LET g == DGrid(k, r)
        m == (k * Pow62Mod + r) % g
        even == (k * Pow62Mod + r - m) % (2 * g) = 0
    IN  IF 2 * m < g \/ (2 * m = g /\ even) THEN D(k, r - m)
        ELSE D(k, r - m + g)

DLess(a, b) == a.k < b.k \/ (a.k = b.k /\ a.r < b.r)
DAdd(a, b) == DRound(a.k + b.k, a.r + b.r)
DNeg(a) == D(-a.k, -a.r)
DMax(a, b) == IF DLess(b, a) THEN a ELSE b
DMin(a, b) == IF DLess(b, a) THEN b ELSE a

\* the constants as the compiler stores them
DOne == D(1000, 0)
DSpeedMin == DRound(EXTERNAL_CLOCK_SPEED_MIN, 0)
DSpeedMax == DRound(EXTERNAL_CLOCK_SPEED_MAX, 0)
DSpeedStep == DRound(EXTERNAL_CLOCK_SPEED_STEP, 0)

EXTERNAL_CLOCK_MIN_FRAMES == 2
EXTERNAL_CLOCK_MAX_FRAMES == 10

\* is->videoq.nb_packets, is->audioq.nb_packets
FillLevels == {0, 2, 3, 10, 11}

\* check_external_clock_speed on the speed alone (set_clock_speed keeps the
\* reading, SpecSpeed); STEP * (1.0 - speed) / fabs(1.0 - speed) is STEP
\* with the sign of 1.0 - speed
external_clock_speed(speed, video_stream, vnb, audio_stream, anb) ==
    IF \/ video_stream >= 0 /\ vnb <= EXTERNAL_CLOCK_MIN_FRAMES
       \/ audio_stream >= 0 /\ anb <= EXTERNAL_CLOCK_MIN_FRAMES
    THEN DMax(DSpeedMin, DAdd(speed, DNeg(DSpeedStep)))
    ELSE IF /\ video_stream < 0 \/ vnb > EXTERNAL_CLOCK_MAX_FRAMES
            /\ audio_stream < 0 \/ anb > EXTERNAL_CLOCK_MAX_FRAMES
    THEN DMin(DSpeedMax, DAdd(speed, DSpeedStep))
    ELSE IF speed # DOne
    THEN DAdd(speed, IF DLess(speed, DOne) THEN DSpeedStep ELSE DNeg(DSpeedStep))
    ELSE speed

othersExtSpeed ==
    <<varsPQ, varsFQ, varsPipe, now, is, clk_qs, clk_step, varsAbort, varsRead,
      varsSeek>>

NoSpeedCall ==
    [called |-> FALSE, before |-> DOne, video_stream |-> -1, vnb |-> 0,
     audio_stream |-> -1, anb |-> 0]

InitExtSpeed ==
    /\ QueuesParked
    /\ AbortParked
    /\ now = 0
    /\ is = VideoState(AV_SYNC_EXTERNAL_CLOCK, 1, 1, 1, 0)
    /\ clk_qs = 0
    /\ clk_step = NoStep
    /\ clk = [speed |-> DOne]
    /\ clk_h = NoSpeedCall

\* video_refresh of a realtime stream on the external clock, not paused
XsCheckSpeed ==
    /\ is.paused = 0
    /\ get_master_sync_type(is) = AV_SYNC_EXTERNAL_CLOCK
    /\ is.realtime = 1
    /\ \E video_stream \in {-1, 0}, audio_stream \in {-1, 1},
          vnb \in FillLevels, anb \in FillLevels :
          /\ clk' = [clk EXCEPT !.speed =
                        external_clock_speed(@, video_stream, vnb, audio_stream, anb)]
          /\ clk_h' = [called |-> TRUE, before |-> clk.speed,
                       video_stream |-> video_stream, vnb |-> vnb,
                       audio_stream |-> audio_stream, anb |-> anb]
    /\ UNCHANGED othersExtSpeed

NextExtSpeed == XsCheckSpeed

SpecExtSpeed == InitExtSpeed /\ [][NextExtSpeed]_vars

(***************************************************************************)
(* Claims about check_external_clock_speed (SpecExtSpeed)                  *)
(***************************************************************************)
\* some active queue holds at most 2 packets / every active queue holds
\* more than 10
SpeedLow ==
    \/ clk_h.video_stream >= 0 /\ clk_h.vnb <= 2
    \/ clk_h.audio_stream >= 0 /\ clk_h.anb <= 2
SpeedHigh ==
    /\ ~SpeedLow
    /\ clk_h.video_stream < 0 \/ clk_h.vnb > 10
    /\ clk_h.audio_stream < 0 \/ clk_h.anb > 10

\* b - a is at most 0.001, to the rounding of one double
StepAtMost(a, b) ==
    \/ b.k - a.k < 1
    \/ b.k - a.k = 1 /\ b.r - a.r <= DSpeedStep.r + 1024000

\* the speed is within [0.900, 1.010] as stored, and the last call moved it
\* by at most one step
SpeedInRange ==
    /\ ~DLess(clk.speed, DSpeedMin)
    /\ ~DLess(DSpeedMax, clk.speed)
    /\ clk_h.called =>
          /\ StepAtMost(clk_h.before, clk.speed)
          /\ StepAtMost(clk.speed, clk_h.before)

\* C33: the speed stays within [0.900, 1.010] and a call changes it by at
\* most 0.001: not up when some active queue has <= 2 packets, not down
\* when every active queue has > 10, and otherwise towards 1.0 without
\* passing it, with no change at 1.0
C33_SpeedControl ==
    /\ SpeedInRange
    /\ clk_h.called =>
          IF SpeedLow THEN ~DLess(clk_h.before, clk.speed)
          ELSE IF SpeedHigh THEN ~DLess(clk.speed, clk_h.before)
          ELSE IF DLess(clk_h.before, DOne)
          THEN DLess(clk_h.before, clk.speed) /\ ~DLess(DOne, clk.speed)
          ELSE IF DLess(DOne, clk_h.before)
          THEN DLess(clk.speed, clk_h.before) /\ ~DLess(clk.speed, DOne)
          ELSE clk.speed = clk_h.before

(***************************************************************************)
(* SpecAudioOpen: audio_open with a device that refuses every              *)
(* SDL_OpenAudioDevice.  rd holds the locals of the call: the channel      *)
(* count asked for, wanted_spec.channels (a Uint8) and wanted_spec.freq,   *)
(* next_sample_rate_idx, the table indexes last read and the attempts.     *)
(* A read outside a table yields any value.                                *)
(***************************************************************************)
next_nb_channels == <<0, 0, 1, 6, 2, 6, 4, 6>>
next_sample_rates == <<0, 44100, 48000, 96000, 192000>>

\* tab[i] of C, tab a tuple; any is what a read outside the table yields
ArrayRead(tab, i, any) == IF i \in 0 .. Len(tab) - 1 THEN tab[i + 1] ELSE any
OutOfTable == {0, 3, 48000}

\* wanted_channel_layout->nb_channels and wanted_sample_rate at the call
WantedChannels == {-1, 0, 1, 2, 3, 5, 6, 7, 8, 255, 258}
WantedRates == {0, 8000, 44100, 48000, 50000, 96000, 192000, 200000}

othersAudioOpen ==
    <<varsPQ, varsFQ, varsPipe, now, varsClock, varsSpeed, varsAbort, varsSeek>>

\* the while loop before the first attempt: the highest index whose rate is
\* below freq, 0 if there is none
RECURSIVE lower_sample_rate_idx(_, _)
lower_sample_rate_idx(idx, freq) ==
    IF idx # 0 /\ ArrayRead(next_sample_rates, idx, 0) >= freq
    THEN lower_sample_rate_idx(idx - 1, freq)
    ELSE idx

InitAudioOpen ==
    /\ QueuesParked
    /\ ClockParked
    /\ abort_request = 0
    /\ th_q = [s \in StreamSet |-> packet_queue_init]
    /\ th_f = [s \in StreamSet |-> frame_queue_init(1, 0)]
    /\ th_qwait = [s \in StreamSet |-> {}]
    /\ th_fwait = [s \in StreamSet |-> {}]
    /\ th_read = "none"
    /\ th_dec = [s \in StreamSet |-> "none"]
    /\ th_close = [pc |-> "none", i |-> 0, log |-> <<>>]
    /\ th_at = {}
    /\ sk = NoSeek
    /\ \E c \in WantedChannels, r \in WantedRates :
          rd = [pc |-> "entry", wanted_nb_channels |-> c, wanted_sample_rate |-> r,
                channels |-> 0, freq |-> 0, next_sample_rate_idx |-> 0,
                ch_read |-> 0, rate_read |-> 0, attempts |-> 0,
                prev |-> [channels |-> 0, freq |-> 0], ret |-> 0]

\* mutant: the channel table is read at wanted_spec.channels itself
audio_open_retry_NoMin(r, any) ==
    LET c == ArrayRead(next_nb_channels, r.channels, any)
        r1 == [r EXCEPT !.ch_read = r.channels,
                        !.prev = [channels |-> r.channels, freq |-> r.freq]]
    IN  IF c = 0
        THEN LET fr == ArrayRead(next_sample_rates, r.next_sample_rate_idx, any) IN
             [r1 EXCEPT !.freq = fr,
                        !.rate_read = r.next_sample_rate_idx,
                        !.next_sample_rate_idx = @ - 1,
                        !.channels = r.wanted_nb_channels % 256,
                        !.pc = IF fr = 0 THEN "failed" ELSE "open",
                        !.ret = IF fr = 0 THEN -1 ELSE @]
        ELSE [r1 EXCEPT !.channels = c]

\* the body of the while loop after a refused SDL_OpenAudioDevice
audio_open_retry(r, any) ==
    LET i == Min(7, r.channels)
        c == ArrayRead(next_nb_channels, i, any)
        r1 == [r EXCEPT !.ch_read = i,
                        !.prev = [channels |-> r.channels, freq |-> r.freq]]
    IN  IF c = 0
        THEN LET fr == ArrayRead(next_sample_rates, r.next_sample_rate_idx, any) IN
             [r1 EXCEPT !.freq = fr,
                        !.rate_read = r.next_sample_rate_idx,
                        !.next_sample_rate_idx = @ - 1,
                        !.channels = r.wanted_nb_channels % 256,
                        !.pc = IF fr = 0 THEN "failed" ELSE "open",
                        !.ret = IF fr = 0 THEN -1 ELSE @]
        ELSE [r1 EXCEPT !.channels = c]

\* audio_open up to the first attempt: the channel count goes into the
\* Uint8 wanted_spec.channels, a count or a rate of 0 or less is refused,
\* the index of the next lower rate is found
AoEnter ==
    /\ rd.pc = "entry"
    /\ LET channels == rd.wanted_nb_channels % 256
           freq == rd.wanted_sample_rate
       IN  rd' = IF freq <= 0 \/ channels <= 0
                 THEN [rd EXCEPT !.pc = "invalid", !.ret = -1,
                                 !.channels = channels, !.freq = freq]
                 ELSE [rd EXCEPT !.pc = "open", !.channels = channels, !.freq = freq,
                                 !.next_sample_rate_idx =
                                     lower_sample_rate_idx(Len(next_sample_rates) - 1, freq)]
    /\ UNCHANGED othersAudioOpen

\* SDL_OpenAudioDevice is refused and the loop body picks what to try next
AoRefused ==
    /\ rd.pc = "open"
    /\ \E any \in OutOfTable :
          rd' = [audio_open_retry(rd, any) EXCEPT !.attempts = @ + 1]
    /\ UNCHANGED othersAudioOpen

NextAudioOpen == AoEnter \/ AoRefused

SpecAudioOpen ==
    InitAudioOpen /\ [][NextAudioOpen]_vars /\ WF_vars(NextAudioOpen)

(***************************************************************************)
(* Claims about audio_open (SpecAudioOpen)                                 *)
(***************************************************************************)
\* what is tried next follows the channel table at the same rate or, the
\* table giving 0, is the channel count asked for at a strictly lower rate
\* of the rate table; the tables are read inside their bounds
AudioOpenFallback ==
    /\ rd.ch_read \in 0 .. 7
    /\ rd.rate_read \in 0 .. 4
    /\ rd.attempts > 0 =>
          LET next == next_nb_channels[Min(7, rd.prev.channels) + 1] IN
          IF next # 0
          THEN rd.channels = next /\ rd.freq = rd.prev.freq /\ rd.pc = "open"
          ELSE /\ rd.freq < rd.prev.freq
               /\ rd.channels = rd.wanted_nb_channels % 256
               /\ \/ rd.freq \in {44100, 48000, 96000, 192000} /\ rd.pc = "open"
                  \/ rd.freq = 0 /\ rd.pc = "failed" /\ rd.ret = -1

\* C34: with every attempt refused audio_open goes through the channel
\* counts of the table {0,0,1,6,2,6,4,6} and then to strictly lower sample
\* rates of {44100, 48000, 96000, 192000}, reads no table outside its
\* bounds, and returns failure after finitely many attempts, whatever the
\* channel count and the sample rate it was called with
C34_FallbackTerminates ==
    /\ []AudioOpenFallback
    /\ <>(rd.pc \in {"failed", "invalid"} /\ rd.ret = -1)

\* C34 witness: called for 7 channels at 200000 Hz, audio_open has given up
\* after going through every rate of the table
C34_Witness ==
    /\ rd.wanted_nb_channels = 7 /\ rd.wanted_sample_rate = 200000
    /\ rd.pc = "failed"
    /\ rd.attempts = 25

(***************************************************************************)
(* SpecStep: a seek handled while the player is paused.  The user pauses   *)
(* and seeks, the reader handles the request (step_to_next_frame), the     *)
(* video decoder queues pictures, video_refresh presents them and the      *)
(* audio callback plays frames.  The file has a video stream, an audio     *)
(* stream or both.  clk_h counts what was presented since the step began.  *)
(***************************************************************************)
othersStep ==
    <<varsPQ, varsFQ, varsPipe, now, varsSpeed, abort_request, th_qwait,
      th_fwait, th_read, th_dec, th_close, th_at, varsSeek>>

NoStepSeen == [stepped |-> FALSE, ret |-> 0, video |-> 0, audio |-> 0]

InitStep ==
    /\ QueuesParked
    /\ SpeedParked
    /\ now = 0
    /\ abort_request = 0
    /\ th_qwait = [s \in StreamSet |-> {}]
    /\ th_fwait = [s \in StreamSet |-> {}]
    /\ th_read = "none"
    /\ th_dec = [s \in StreamSet |-> "none"]
    /\ th_close = [pc |-> "none", i |-> 0, log |-> <<>>]
    /\ th_at = {}
    /\ sk = NoSeek
    /\ th_f = [s \in StreamSet |-> frame_queue_init(MaxThFrames, 1)]
    /\ \E phase \in [StreamSet -> {"open", "closed"}] :
          /\ \E s \in StreamSet : phase[s] = "open"
          /\ rd = NoHSeek(phase)
          /\ th_q = [s \in StreamSet |->
                       IF phase[s] = "open" THEN packet_queue_start(packet_queue_init)
                       ELSE packet_queue_init]
          /\ is = WithSerials(
                      VideoState(AV_SYNC_AUDIO_MASTER,
                                 IF phase["video"] = "open" THEN 1 ELSE 0,
                                 IF phase["audio"] = "open" THEN 1 ELSE 0, 0, 0),
                      th_q)
    /\ clk_h = NoStepSeen

\* the pause key: toggle_pause
StTogglePause ==
    /\ rd.events < MaxEvents
    /\ is' = [stream_toggle_pause(is, now) EXCEPT !.step = 0]
    /\ rd' = [rd EXCEPT !.events = @ + 1]
    /\ clk_h' = NoStepSeen
    /\ UNCHANGED <<othersStep, th_q, th_f>>

\* a seek key: stream_seek
StUserSeek ==
    /\ rd.events < MaxEvents
    /\ rd' = [stream_seek(rd, 3 * AV_TIME_BASE, 0, 0) EXCEPT !.events = @ + 1]
    /\ UNCHANGED <<othersStep, th_q, th_f, is, clk_h>>

\* the reader passes read_thread_loop_handle_seek with a request pending
StHandleSeek ==
    /\ rd.seek_req = 1
    /\ \A s \in StreamSet : th_q[s].serial < MaxSerial
    /\ \E ret \in {0, -1} :
          LET after == read_thread_loop_handle_seek(
                           [qs |-> th_q, vs |-> is, r |-> rd], ret, now)
          IN  /\ th_q' = after.qs
              /\ is' = after.vs
              /\ rd' = after.r
              /\ clk_h' = IF is.paused = 1
                          THEN [stepped |-> TRUE, ret |-> ret, video |-> 0, audio |-> 0]
                          ELSE clk_h
    /\ UNCHANGED <<othersStep, th_f>>

\* video_thread queues a picture, of the queue's serial or of the one before
StQueuePicture ==
    /\ is.video_st = 1
    /\ ~frame_queue_peek_writable_wait(th_f["video"], th_q["video"])
    /\ \E serial \in {th_q["video"].serial - 1, th_q["video"].serial} :
          /\ serial >= 1
          /\ th_f' = [th_f EXCEPT !["video"] = queue_picture(@, 1, serial)]
    /\ UNCHANGED <<othersStep, th_q, is, rd, clk_h>>

\* video_refresh with a video stream: a paused player only lets go of the
\* pictures of an earlier serial; otherwise the picture that is due is
\* presented (frame_queue_next, force_refresh = 1) and a player that is
\* stepping pauses; no late picture is dropped while stepping
StVideoRefresh ==
    /\ is.video_st = 1
    /\ \E late \in (IF is.step = 1 THEN {0} ELSE LateDrops), due \in BOOLEAN :
          LET r == video_refresh_retry(th_f["video"], th_q["video"].serial,
                                       IF is.paused = 1 THEN 0 ELSE late,
                                       is.paused = 0 /\ due)
          IN  /\ th_f' = [th_f EXCEPT !["video"] = r.f]
              /\ is' = IF r.shown /\ is.step = 1 /\ is.paused = 0
                       THEN stream_toggle_pause(is, now)
                       ELSE is
              /\ clk_h' = IF r.shown
                          THEN [clk_h EXCEPT !.video = Min(2, @ + 1)]
                          ELSE clk_h
    /\ UNCHANGED <<othersStep, th_q, rd>>

\* sdl_audio_callback: audio_decode_frame plays a frame unless paused
StAudioFrame ==
    /\ is.audio_st = 1
    /\ is.paused = 0
    /\ clk_h' = [clk_h EXCEPT !.audio = Min(2, @ + 1)]
    /\ UNCHANGED <<othersStep, th_q, th_f, is, rd>>

NextStep ==
    \/ StTogglePause \/ StUserSeek \/ StHandleSeek
    \/ StQueuePicture \/ StVideoRefresh \/ StAudioFrame

SpecStep == InitStep /\ [][NextStep]_vars

(***************************************************************************)
(* Claims about stepping after a seek (SpecStep)                           *)
(***************************************************************************)
\* the frames presented since the step began: pictures when the file has a
\* video stream, audio frames when it has none
StepPresented == IF is.video_st = 1 THEN clk_h.video ELSE clk_h.audio

\* with a video stream: unpaused with step set until one picture has been
\* presented, then paused
StepWithVideo ==
    clk_h.stepped /\ is.video_st = 1 =>
        /\ is.step = 1
        /\ clk_h.video = 0 => is.paused = 0
        /\ clk_h.video >= 1 => clk_h.video = 1 /\ is.paused = 1

HeldSlots(fq, n) == {(fq.rindex + i) % fq.max_size : i \in 0 .. n - 1}

\* frame_queue_next has advanced rindex and has yet to take one off size
NextInProgress == cpc = "next_locked"

\* frame_queue_push has advanced windex and has yet to add one to size
PushInProgress == ppc = "push_locked"

\* C36 as stated: the slot being filled is none of the size slots from
\* rindex on, and windex = (rindex + size) mod max_size whenever no push is
\* in progress
C36_Original ==
    /\ ppc = "fill" => f.windex \notin HeldSlots(f, f.size)
    /\ ~PushInProgress => f.windex = (f.rindex + f.size) % f.max_size

\* C36 amended: in every interleaving of the producer and the consumer the
\* slot the producer fills (at windex) is none of the slots the consumer may
\* still read, which are the size slots from rindex on, the keep-last slot
\* included, less the one frame_queue_next is taking off when it has
\* advanced rindex already; windex = (rindex + size) mod max_size whenever
\* neither a push nor a next is in progress
C36_WriteSlotNotReadable ==
    /\ ppc = "fill" =>
          f.windex \notin HeldSlots(f, IF NextInProgress THEN f.size - 1 ELSE f.size)
    /\ (~PushInProgress /\ ~NextInProgress) =>
          f.windex = (f.rindex + f.size) % f.max_size
    /\ (~PushInProgress /\ NextInProgress) =>
          f.windex = (f.rindex + f.size - 1) % f.max_size

\* C36 witness: on a keep_last queue whose indexes have wrapped the producer
\* fills the one free slot while the consumer is inside frame_queue_next
C36_Witness ==
    /\ f.keep_last = 1
    /\ f.rindex_shown = 1
    /\ ppc = "fill"
    /\ NextInProgress
    /\ f.size = f.max_size - 1
    /\ f.max_size = VIDEO_PICTURE_QUEUE_SIZE
    /\ fq_pushed >= f.max_size

\* C37: in every interleaving of the producer's and the consumer's steps
\* frame_queue_nb_remaining (size - rindex_shown) is not negative, and
\* frame_queue_next is entered only with an undisplayed frame present
C37_NbRemainingNotNegative ==
    /\ frame_queue_nb_remaining(f) >= 0
    /\ f.size >= f.rindex_shown
    /\ cpc = "next" => frame_queue_nb_remaining(f) > 0

\* C37 witness: on a keep_last queue the consumer has taken every frame
\* pushed, more than the ring has slots, so that only the shown frame is
\* held and nothing remains
C37_Witness ==
    /\ f.keep_last = 1
    /\ f.rindex_shown = 1
    /\ f.size = 1
    /\ cpc = "idle"
    /\ fq_pushed > f.max_size
    /\ fq_cycles = fq_pushed

(***************************************************************************)
(* Claims about the serials of queued frames (SpecPipe)                    *)
(***************************************************************************)
\* the serials of the frames held, from the read position to the write
\* position (the kept last frame first when there is one)
HeldSerials(fq) ==
    [i \in 1 .. fq.size |-> fq.queue[(fq.rindex + i - 1) % fq.max_size].serial]

\* C38: a frame the decoder thread pushes carries the decoder's pkt_serial,
\* which is no greater than the PacketQueue's serial at the push, and the
\* serials of the frames held never decrease from the read position to the
\* write position, whatever seeks happen in between
C38_FrameSerials ==
    /\ [][fq_pushed' # fq_pushed =>
             /\ f'.queue[f.windex].serial = dec.pkt_serial
             /\ f'.queue[f.windex].serial <= q.serial
             /\ f'.queue[f.windex].serial >= 1]_vars
    /\ [](\A i, j \in DOMAIN HeldSerials(f) :
             i <= j => HeldSerials(f)[i] <= HeldSerials(f)[j])
    /\ [](\A i \in DOMAIN HeldSerials(f) : HeldSerials(f)[i] <= q.serial)

\* C38 witness: after two seeks the queue holds a frame of the first serial
\* and, behind it, a frame of the third, pushed while a packet waits
C38_Witness ==
    /\ f.size >= 2
    /\ HeldSerials(f)[1] = 1
    /\ HeldSerials(f)[f.size] = 3
    /\ q.serial = 3
    /\ q.nb_packets >= 1

(***************************************************************************)
(* SpecFinished: the finished marker of the audio decoder.  The stream is  *)
(* opened by the reader before its loop, or (when that did not happen) by  *)
(* the user's stream_cycle_channel on the event loop's thread, closed and  *)
(* opened again; the reader puts packets, the null packet at the end of    *)
(* the file and handles seeks; the decoder thread runs                     *)
(* decoder_decode_frame; the reader evaluates the end-of-playback          *)
(* condition.  rd holds the stream's state and the serials the codec       *)
(* reported its end for, vr_disp what the reader saw last.                 *)
(***************************************************************************)
othersFinished ==
    <<varsPQh, varsFQ, strm, force_refresh, now, varsClock, varsSpeed,
      varsAbort, varsSeek>>

NotEvaluated == [called |-> FALSE, audio_st |-> 0, finished |-> 0, serial |-> 0,
                 reported |-> FALSE]

InitFinished ==
    /\ PQhParked
    /\ FQParked
    /\ ClockParked
    /\ abort_request = 0
    /\ th_q = [s \in StreamSet |-> packet_queue_init]
    /\ th_f = [s \in StreamSet |-> frame_queue_init(1, 0)]
    /\ th_qwait = [s \in StreamSet |-> {}]
    /\ th_fwait = [s \in StreamSet |-> {}]
    /\ th_read = "none"
    /\ th_dec = [s \in StreamSet |-> "none"]
    /\ th_close = [pc |-> "none", i |-> 0, log |-> <<>>]
    /\ th_at = {}
    /\ sk = NoSeek
    /\ strm = "audio"
    /\ force_refresh = 0
    /\ q = packet_queue_init
    /\ dec = [decoder_init EXCEPT !.pkt_serial = 0]
    /\ dpc = "none"
    /\ \E opener \in {"reader", "ui"} :
          rd = [audio_st |-> 0, opc |-> "closed", opener |-> opener,
                draining |-> FALSE, eos |-> {}, events |-> 0]
    /\ vr_disp = NotEvaluated

\* the reader is in read_thread_loop: it is not the thread that opens the
\* stream
ReaderInLoop == rd.opener = "ui" \/ rd.opc = "started"

\* stream_component_open_audio up to decoder_init: is->audio_st is set, the
\* Decoder is zeroed and pkt_serial = -1
FnOpenInit ==
    /\ rd.opc = "closed"
    /\ dec' = decoder_init
    /\ rd' = [rd EXCEPT !.audio_st = 1, !.opc = "inited", !.draining = FALSE]
    /\ UNCHANGED <<othersFinished, q, dpc, vr_disp>>

\* decoder_start: packet_queue_start and the decoder thread
FnOpenStart ==
    /\ rd.opc = "inited"
    /\ q.serial < MaxSerial
    /\ q' = packet_queue_start(q)
    /\ dpc' = "receive"
    /\ rd' = [rd EXCEPT !.opc = "started"]
    /\ UNCHANGED <<othersFinished, dec, vr_disp>>

\* stream_component_close from stream_cycle_channel: decoder_abort (abort,
\* the thread is joined, flush), decoder_destroy, is->audio_st = NULL
FnClose ==
    /\ rd.opc = "started"
    /\ rd.events < MaxEvents
    /\ q' = packet_queue_flush(packet_queue_abort(q))
    /\ dpc' = "none"
    /\ rd' = [rd EXCEPT !.audio_st = 0, !.opc = "closed", !.opener = "ui",
                        !.events = @ + 1]
    /\ UNCHANGED <<othersFinished, dec, vr_disp>>

\* read_thread_loop: a packet of the stream, or the null packet at the end
\* of the file, is put
FnPut ==
    /\ ReaderInLoop
    /\ rd.audio_st = 1
    /\ Len(q.pkts) < MaxQueue
    /\ \E pkt \in {DataPkt(1, 0), NullPkt(0)} :
          /\ packet_queue_put(q, pkt).ret = 0
          /\ q' = packet_queue_put(q, pkt).q
    /\ UNCHANGED <<othersFinished, dec, dpc, rd, vr_disp>>

\* read_thread_loop_handle_seek, the seek done: flush and sentinel
FnSeek ==
    /\ ReaderInLoop
    /\ rd.audio_st = 1
    /\ q.serial < MaxSerial
    /\ q' = handle_seek(q)
    /\ UNCHANGED <<othersFinished, dec, dpc, rd, vr_disp>>

\* decoder_decode_frame, step 1, on the queue's serial: abort ends the
\* thread, a frame is handed out, the drained codec reports its end
\* (finished = pkt_serial, avcodec_flush_buffers), EAGAIN leads to the get
decoder_decode_frame_receive(dc, pq, draining) ==
    IF pq.serial # dc.pkt_serial
    THEN [pc |-> "get", dec |-> dc, draining |-> draining, eos |-> FALSE]
    ELSE IF pq.abort_request = 1
    THEN [pc |-> "exit", dec |-> dc, draining |-> draining, eos |-> FALSE]
    ELSE IF dc.codec > 0
    THEN [pc |-> "receive", dec |-> [dc EXCEPT !.codec = @ - 1],
          draining |-> draining, eos |-> FALSE]
    ELSE IF draining
    THEN [pc |-> "receive", dec |-> [dc EXCEPT !.finished = dc.pkt_serial],
          draining |-> FALSE, eos |-> TRUE]
    ELSE [pc |-> "get", dec |-> dc, draining |-> draining, eos |-> FALSE]

\* mutant: the sentinel leaves finished as it is
decoder_decode_frame_packet_KeepFinished(dc, pq, pkt, serial, draining) ==
    LET d1 == [dc EXCEPT !.pkt_serial = serial] IN
    IF pq.serial # serial
    THEN [pc |-> "get", dec |-> d1, draining |-> draining]
    ELSE IF pkt.kind = "flush"
    THEN [pc |-> "receive", dec |-> [d1 EXCEPT !.codec = 0], draining |-> FALSE]
    ELSE IF pkt.kind = "null"
    THEN [pc |-> "receive", dec |-> d1, draining |-> TRUE]
    ELSE [pc |-> "receive", dec |-> [d1 EXCEPT !.codec = 1], draining |-> draining]

\* decoder_decode_frame, steps 2 and 3, for the packet packet_queue_get
\* delivered with its serial: off the queue's serial it is dropped and the
\* next is taken; the sentinel flushes the codec and clears finished; the
\* null packet starts the drain; any other packet is decoded
decoder_decode_frame_packet(dc, pq, pkt, serial, draining) ==
    LET d1 == [dc EXCEPT !.pkt_serial = serial] IN
    IF pq.serial # serial
    THEN [pc |-> "get", dec |-> d1, draining |-> draining]
    ELSE IF pkt.kind = "flush"
    THEN [pc |-> "receive", dec |-> [d1 EXCEPT !.codec = 0, !.finished = 0],
          draining |-> FALSE]
    ELSE IF pkt.kind = "null"
    THEN [pc |-> "receive", dec |-> d1, draining |-> TRUE]
    ELSE [pc |-> "receive", dec |-> [d1 EXCEPT !.codec = 1], draining |-> draining]

FnReceive ==
    /\ dpc = "receive"
    /\ LET r == decoder_decode_frame_receive(dec, q, rd.draining) IN
          /\ dec' = r.dec
          /\ dpc' = r.pc
          /\ rd' = [rd EXCEPT !.draining = r.draining,
                              !.eos = IF r.eos THEN @ \cup {dec.pkt_serial} ELSE @]
    /\ UNCHANGED <<othersFinished, q, vr_disp>>

\* packet_queue_get(d->queue, &pkt, 1, &d->pkt_serial), blocking
FnGet ==
    /\ dpc = "get"
    /\ LET g == packet_queue_get(q) IN
          /\ g.ret # 0
          /\ q' = g.q
          /\ IF g.ret < 0
             THEN dec' = dec /\ dpc' = "exit" /\ rd' = rd
             ELSE LET n == decoder_decode_frame_packet(dec, g.q, g.pkt, g.serial,
                                                       rd.draining)
                  IN  /\ dec' = n.dec
                      /\ dpc' = n.pc
                      /\ rd' = [rd EXCEPT !.draining = n.draining]
    /\ UNCHANGED <<othersFinished, vr_disp>>

\* read_thread_loop_handle_loop reads is->audio_st, is->auddec.finished and
\* is->audioq.serial
FnEvaluate ==
    /\ ReaderInLoop
    /\ vr_disp' = [called |-> TRUE, audio_st |-> rd.audio_st,
                   finished |-> dec.finished, serial |-> q.serial,
                   reported |-> q.serial \in rd.eos]
    /\ UNCHANGED <<othersFinished, q, dec, dpc, rd>>

NextFinished ==
    \/ FnOpenInit \/ FnOpenStart \/ FnClose \/ FnPut \/ FnSeek
    \/ FnReceive \/ FnGet \/ FnEvaluate

SpecFinished == InitFinished /\ [][NextFinished]_vars

(***************************************************************************)
(* Claims about the finished marker (SpecFinished)                         *)
(***************************************************************************)
\* C39 as stated: with the stream open, finished equals the queue's serial
\* only if the codec reported its end for a packet of that serial, and the
\* reader never sees them equal otherwise
C39_Original ==
    /\ (rd.audio_st = 1 /\ dec.finished = q.serial) => q.serial \in rd.eos
    /\ (vr_disp.called /\ vr_disp.audio_st = 1
          /\ vr_disp.finished = vr_disp.serial) => vr_disp.reported

\* C39 amended: finished equals the serial of a queue that was started only
\* if the codec reported its end for a packet of that serial; on a queue
\* never started (serial 0) finished is 0 as well, and the reader may see
\* the two equal between decoder_init and packet_queue_start; the sentinel
\* clears finished and a seek leaves a marker behind the serial
C39_FinishedMarker ==
    /\ [](dec.finished = q.serial => (q.serial \in rd.eos \/ q.serial = 0))
    /\ [](dec.finished \in rd.eos \cup {0})
    /\ []((vr_disp.called /\ vr_disp.finished = vr_disp.serial)
             => (vr_disp.reported \/ vr_disp.serial = 0))
    /\ [][(dpc = "get" /\ dpc' = "receive" /\ q.pkts # <<>>
             /\ Head(q.pkts).pkt.kind = "flush") => dec'.finished = 0]_vars
    /\ [][(q'.serial > q.serial /\ dec.finished # 0)
             => dec'.finished < q'.serial]_vars

\* C39 witness: the codec reported its end on the second serial, the reader
\* saw finished equal to the serial, and a seek has since left the marker
\* behind
C39_Witness ==
    /\ vr_disp.called
    /\ vr_disp.finished = 2
    /\ vr_disp.serial = 2
    /\ vr_disp.reported
    /\ dec.finished = 2
    /\ q.serial = 3

\* the reader took a stream as ended whose queue was never started
SeenEndedUnstarted ==
    /\ vr_disp.called
    /\ vr_disp.audio_st = 1
    /\ vr_disp.finished = vr_disp.serial
    /\ vr_disp.serial = 0

(***************************************************************************)
(* SpecHandoff: the seek request between its writers and the reader, one   *)
(* statement at a time.  The event loop's thread calls stream_seek for a   *)
(* seek key; the reader thread runs read_thread_loop_handle_seek and, when *)
(* playback has ended and loop is not 1, its own stream_seek(0) in         *)
(* read_thread_loop_handle_loop.  No lock guards seek_req, seek_pos,       *)
(* seek_rel and seek_flags.  rd holds the fields, each thread's place and  *)
(* the triples of the calls that passed the test of seek_req; clk_h holds  *)
(* what the reader used for the request it handled last.                   *)
(***************************************************************************)
SeekThreads == {"ui", "reader"}

\* the (pos, rel, seek_by_bytes) of the seek keys; the loop restart is
\* stream_seek(is, 0, 0, 0)
KeyCalls ==
    {[pos |-> 3 * AV_TIME_BASE, rel |-> 10 * AV_TIME_BASE, bytes |-> 0],
     [pos |-> 5 * AV_TIME_BASE, rel |-> -10 * AV_TIME_BASE, bytes |-> 1]}
LoopCall == [pos |-> 0, rel |-> 0, bytes |-> 0]

NoSeekCall == [pc |-> "done", todo |-> {}, pos |-> 0, rel |-> 0, bytes |-> 0]
NothingConsumed == [called |-> FALSE, pos |-> 0, rel |-> 0, flags |-> 0, flags2 |-> 0]

othersHandoff ==
    <<varsPQ, varsFQ, varsPipe, now, is, varsSpeed, varsAbort, varsSeek>>

InitHandoff ==
    /\ QueuesParked
    /\ SpeedParked
    /\ now = 0
    /\ is = VideoState(AV_SYNC_AUDIO_MASTER, 1, 1, 0, 0)
    /\ abort_request = 0
    /\ th_q = [s \in StreamSet |-> packet_queue_init]
    /\ th_f = [s \in StreamSet |-> frame_queue_init(1, 0)]
    /\ th_qwait = [s \in StreamSet |-> {}]
    /\ th_fwait = [s \in StreamSet |-> {}]
    /\ th_read = "none"
    /\ th_dec = [s \in StreamSet |-> "none"]
    /\ th_close = [pc |-> "none", i |-> 0, log |-> <<>>]
    /\ th_at = {}
    /\ sk = NoSeek
    /\ \E loop \in 0 .. MaxLoop :
          rd = [seek_req |-> 0, seek_pos |-> 0, seek_rel |-> 0, seek_flags |-> 0,
                loop |-> loop, keys |-> 0, restarts |-> 0,
                call |-> [t \in SeekThreads |-> NoSeekCall],
                rpc |-> "seek",
                got |-> [pos |-> 0, rel |-> 0, flags |-> 0],
                issued |-> {}, passed |-> 0]
    /\ clk_h = NothingConsumed

\* the stores of a stream_seek call that passed the test of seek_req
SeekStores(bytes) ==
    {"pos", "rel", "clear", "req"} \cup (IF bytes # 0 THEN {"set"} ELSE {})

\* stream_seek, the test of seek_req by thread t
stream_seek_test(r, t) ==
    LET c == r.call[t] IN
    IF r.seek_req = 0
    THEN [r EXCEPT !.call[t].pc = "stores",
                   !.call[t].todo = SeekStores(c.bytes),
                   !.issued = @ \cup {[pos |-> c.pos, rel |-> c.rel,
                                       bytes |-> c.bytes]},
                   !.passed = @ + 1]
    ELSE [r EXCEPT !.call[t].pc = "done"]

\* stream_seek, one store of the call of thread t reaching memory:
\* seek_pos = pos, seek_rel = rel, seek_flags &= ~AVSEEK_FLAG_BYTE,
\* seek_flags |= AVSEEK_FLAG_BYTE, seek_req = 1
stream_seek_store(r, t, st) ==
    LET c == r.call[t]
        r1 == CASE st = "pos" -> [r EXCEPT !.seek_pos = c.pos]
                [] st = "rel" -> [r EXCEPT !.seek_rel = c.rel]
                [] st = "clear" -> [r EXCEPT !.seek_flags = 0]
                [] st = "set" -> [r EXCEPT !.seek_flags = AVSEEK_FLAG_BYTE]
                [] st = "req" -> [r EXCEPT !.seek_req = 1]
    IN  [r1 EXCEPT !.call[t].todo = @ \ {st},
                   !.call[t].pc = IF c.todo = {st} THEN "done" ELSE "stores"]

\* a seek key: the event loop enters stream_seek
HoKey ==
    /\ rd.call["ui"].pc = "done"
    /\ rd.keys < MaxKeys
    /\ \E c \in KeyCalls :
          rd' = [rd EXCEPT !.keys = @ + 1,
                           !.call["ui"] = [pc |-> "test", todo |-> {},
                                           pos |-> c.pos, rel |-> c.rel,
                                           bytes |-> c.bytes]]
    /\ UNCHANGED <<othersHandoff, clk_h>>

\* a thread enters stream_seek and tests seek_req
HoStreamSeekTest(t) ==
    /\ rd.call[t].pc = "test"
    /\ rd' = stream_seek_test(rd, t)
    /\ UNCHANGED <<othersHandoff, clk_h>>

\* a store of a thread inside stream_seek reaches memory.  The fields are
\* plain ints written and read without a lock or a barrier, a data race:
\* the stores to different fields become visible to the other thread in any
\* order; the two stores to seek_flags keep theirs
HoStreamSeekStore(t) ==
    /\ rd.call[t].pc = "stores"
    /\ \E st \in rd.call[t].todo :
          /\ st = "set" => "clear" \notin rd.call[t].todo
          /\ rd' = stream_seek_store(rd, t, st)
    /\ UNCHANGED <<othersHandoff, clk_h>>

\* read_thread_loop_handle_seek, the next statement: the test of seek_req,
\* the reads of seek_pos, of seek_rel and of seek_flags (for
\* avformat_seek_file and again for the external clock), seek_req = 0
HoHandleSeek ==
    /\ rd.call["reader"].pc = "done"
    /\ \/ /\ rd.rpc = "seek"
          /\ rd' = [rd EXCEPT !.rpc = IF rd.seek_req # 0 THEN "pos" ELSE "loop"]
          /\ clk_h' = clk_h
       \/ /\ rd.rpc = "pos"
          /\ rd' = [rd EXCEPT !.got.pos = rd.seek_pos, !.rpc = "rel"]
          /\ clk_h' = clk_h
       \/ /\ rd.rpc = "rel"
          /\ rd' = [rd EXCEPT !.got.rel = rd.seek_rel, !.rpc = "flags"]
          /\ clk_h' = clk_h
       \/ /\ rd.rpc = "flags"
          /\ rd' = [rd EXCEPT !.got.flags = rd.seek_flags, !.rpc = "flags2"]
          /\ clk_h' = clk_h
       \/ /\ rd.rpc = "flags2"
          /\ rd' = [rd EXCEPT !.seek_req = 0, !.passed = 0, !.rpc = "loop"]
          /\ clk_h' = [called |-> TRUE, pos |-> rd.got.pos, rel |-> rd.got.rel,
                       flags |-> rd.got.flags, flags2 |-> rd.seek_flags]
    /\ UNCHANGED othersHandoff

\* read_thread_loop_handle_loop: with playback ended and loop != 1 &&
\* (!loop || --loop) the reader enters stream_seek(is, 0, 0, 0)
HoHandleLoop ==
    /\ rd.call["reader"].pc = "done"
    /\ rd.rpc = "loop"
    /\ \E ended \in BOOLEAN :
          IF ended /\ rd.loop # 1 /\ rd.restarts < MaxLoop
          THEN rd' = [rd EXCEPT !.loop = IF @ = 0 THEN 0 ELSE @ - 1,
                                !.restarts = @ + 1,
                                !.call["reader"] =
                                    [pc |-> "test", todo |-> {},
                                     pos |-> LoopCall.pos, rel |-> LoopCall.rel,
                                     bytes |-> LoopCall.bytes],
                                !.rpc = "seek"]
          ELSE rd' = [rd EXCEPT !.rpc = "seek"]
    /\ UNCHANGED <<othersHandoff, clk_h>>

NextHandoff ==
    \/ HoKey \/ HoHandleSeek \/ HoHandleLoop
    \/ \E t \in SeekThreads : HoStreamSeekTest(t) \/ HoStreamSeekStore(t)

SpecHandoff == InitHandoff /\ [][NextHandoff]_vars

(***************************************************************************)
(* Claims about the seek request (SpecHandoff)                             *)
(***************************************************************************)
\* the triple the reader used for the request it handled last
Consumed ==
    [pos |-> clk_h.pos, rel |-> clk_h.rel,
     bytes |-> IF clk_h.flags = AVSEEK_FLAG_BYTE THEN 1 ELSE 0]

HandoffWhole ==
    /\ clk_h.called
    /\ Consumed \in KeyCalls
    /\ clk_h.flags2 = clk_h.flags
    /\ rd.keys = MaxKeys

====
